---- MODULE Spec2Model ----
(***************************************************************************)
(* FRQS-Network: router, middleware pipeline, server lifecycle, multipart   *)
(* parser, static files, stream loop and request parser.                   *)
(*                                                                         *)
(* Strings are sequences of one-character strings, so that template        *)
(* compilation (Router::addRoute) and std::regex_match are computed        *)
(* character by character.                                                 *)
(***************************************************************************)
EXTENDS Integers, Sequences, FiniteSets, TLC

VARIABLES
    routers,        \* Router objects: routers[1] is Server::router_, the others come from group()
    ctx,            \* the Context of the request being routed / processed (NoCtx when none)
    response,       \* the HTTPResponse the Context refers to
    middlewares,    \* Server::middlewares_
    stack,          \* the executeMiddlewareChain activations of the per-connection task
    trace,          \* what the per-connection task has executed, in order
    pc,             \* where the per-connection task is
    sent,           \* the responses written to the client socket
    total_requests, \* Server::total_requests_
    received,       \* what receive() delivered to the running per-connection task
    plugins,        \* Server::plugins_
    running,        \* Server::running_
    socket,         \* Server::server_socket_: "none", "open", "listening" or "closed"
    mainPc,         \* where the thread that calls start() is
    mainIdx,        \* start()'s position in plugins_
    startResult,    \* how the last start() ended
    starts,         \* number of start() calls that went past the running_ test
    stopPc,         \* per thread that calls stop(): where it is
    stopIdx,        \* per thread that calls stop(): its position in plugins_
    hooks,          \* the plugin hooks called so far, in order
    epoch,          \* Len(hooks) when the last start() began
    addResult,      \* the last addPlugin call: the plugin passed and the value returned
    queued,         \* per-connection tasks submitted to the pool and not yet started
    busy,           \* per-connection tasks a worker is running
    active,         \* Server::active_connections_
    accepted,       \* connections accepted so far
    closed,         \* accepted client sockets closed so far
    mpInput,        \* the multipart body handed to MultipartParser::parse, as it was assembled
    parts_,         \* MultipartParser::parts_
    parseResult,    \* what MultipartParser::parse returned: "none", "true" or "false"
    requested,      \* the path of the last request handleStaticFile was called for
    safe_path,      \* what securePath returned to handleStaticFile
    streamPc,       \* where the task that runs handleStreamDirect is
    frames_sent,    \* handleStreamDirect's frames_sent
    sentAfterStop,  \* the frames among them that were written while running_ was false
    client,         \* handleStreamDirect's client socket: "none", "open" or "closed"
    lastCapture,    \* what happened inside the last captureFrame call
    previous_frame_,\* ScreenCapturer::previous_frame_: "empty" or "set"
    rawInput,       \* the raw_data of the last HTTPRequest::parse call
    request,        \* the HTTPRequest after parse: its fields, error_message_ and parse's result
    stopCalled,     \* a stop() call was made after the last start() was entered
    builder,        \* ServerBuilder: plugins_, middlewares_ and routes_
    buildPc         \* "idle", or "done" once ServerBuilder::build() has returned the server

reqVars == <<ctx, response>>
pipeVars == <<middlewares, stack, trace, pc, sent, total_requests, received>>
lifeVars == <<plugins, running, socket, mainPc, mainIdx, startResult, starts,
              stopPc, stopIdx, hooks, epoch, addResult>>
poolVars == <<queued, busy, active, accepted, closed>>
mpVars == <<mpInput, parts_, parseResult>>
fsVars == <<requested, safe_path>>
streamVars == <<streamPc, frames_sent, sentAfterStop, client, lastCapture, previous_frame_>>
parseVars == <<rawInput, request>>
callVars == <<stopCalled>>
builderVars == <<builder, buildPc>>
compVars == <<mpVars, fsVars, streamVars, parseVars, callVars, builderVars>>
serverVars == <<routers, reqVars, pipeVars, lifeVars, poolVars, callVars, builderVars>>
vars == <<routers, ctx, response, middlewares, stack, trace, pc, sent, total_requests, received,
          plugins, running, socket, mainPc, mainIdx, startResult, starts,
          stopPc, stopIdx, hooks, epoch, addResult, queued, busy, active, accepted, closed,
          mpInput, parts_, parseResult, requested, safe_path,
          streamPc, frames_sent, sentAfterStop, client, lastCapture, previous_frame_,
          rawInput, request, stopCalled, builder, buildPc>>

-----------------------------------------------------------------------------
(* Bounds *)

MaxRoutes == 2
MaxRouters == 2
MaxMiddlewares == 3
MaxPlugins == 2
MaxStarts == 1
MaxConnections == 2
MaxRequests == 2
MaxHooks == 5

-----------------------------------------------------------------------------
(* Input alphabets *)

Methods == {"GET", "POST"}

\* Templates handed to get()/post()
Templates ==
    { <<"/", "a">>,
      <<"/", ":", "x">>,
      <<"/", "a", "/", ":", "x">>,
      <<"/", ":", "x", "/", ":", "y">>,
      <<"/", ":", "x", "/", ":", "x">>,
      <<"/", "*">>,
      <<"/", "a", ".", "b">> }

\* Prefixes handed to group()
Prefixes == { <<"/", "a">>, <<"/", "v">> }

\* Request paths
Paths ==
    { <<"/">>,
      <<"/", "a">>,
      <<"/", "b">>,
      <<"/", "a", "/", "b">>,
      <<"/", "b", "/", "a">>,
      <<"/", "a", "/", "a">>,
      <<"/", "*">>,
      <<"/", "a", "b">>,
      <<"/", "a", ".", "b">>,
      <<"/", "a", "c", "b">>,
      <<"/", "v", "/", "a">> }

-----------------------------------------------------------------------------
(* Router::addRoute: template -> regex pattern + parameter names *)

\* The capture group appended for a parameter, kept as one token of pattern_str
Group == "([^/]+)"

\* Characters addRoute escapes with a backslash
RegexSpecial == {".", "+", "*", "?", "^", "$", "(", ")", "[", "]", "{", "}", "|", "\\"}

\* full_path.find('/', pos); Len+1 stands for npos (end = full_path.size())
RECURSIVE FindSlash(_, _)
FindSlash(s, pos) ==
    IF pos > Len(s) THEN Len(s) + 1
    ELSE IF s[pos] = "/" THEN pos
    ELSE FindSlash(s, pos + 1)

\* The while loop of addRoute from position pos: the pattern text after "^"
\* and the parameter names, in the order they are pushed
RECURSIVE CompileFrom(_, _)
CompileFrom(full_path, pos) ==
    IF pos > Len(full_path) THEN [pattern |-> <<>>, param_names |-> <<>>]
    ELSE IF full_path[pos] = ":" THEN
        LET end == FindSlash(full_path, pos)
            rest == CompileFrom(full_path, end)
        IN  [pattern |-> <<Group>> \o rest.pattern,
             param_names |-> <<SubSeq(full_path, pos + 1, end - 1)>> \o rest.param_names]
    ELSE
        LET c == full_path[pos]
            rest == CompileFrom(full_path, pos + 1)
        IN  [pattern |-> (IF c \in RegexSpecial THEN <<"\\", c>> ELSE <<c>>) \o rest.pattern,
             param_names |-> rest.param_names]

\* The Route entry addRoute pushes for (method, path, handler) on a router with prefix_
MakeRoute(prefix, method, path, handler) ==
    LET c == CompileFrom(prefix \o path, 1)
    IN  [method |-> method,
         path |-> path,
         pattern |-> <<"^">> \o c.pattern \o <<"$">>,
         param_names |-> c.param_names,
         handler |-> handler]

-----------------------------------------------------------------------------
(* std::regex_match on the patterns addRoute builds *)

NoMatch == [ok |-> FALSE, caps |-> <<>>]

\* Length of the run of non-'/' characters of s starting at j
RECURSIVE RunLen(_, _)
RunLen(s, j) ==
    IF j > Len(s) \/ s[j] = "/" THEN 0 ELSE 1 + RunLen(s, j + 1)

RECURSIVE RegexFrom(_, _, _, _)
RECURSIVE GroupTry(_, _, _, _, _)

\* Match pattern pat from token i against s from position j; the captures in order
RegexFrom(pat, i, s, j) ==
    IF i > Len(pat) THEN NoMatch
    ELSE LET a == pat[i] IN
        CASE a = "^" -> IF j = 1 THEN RegexFrom(pat, i + 1, s, j) ELSE NoMatch
          [] a = "$" -> IF j = Len(s) + 1 /\ i = Len(pat)
                            THEN [ok |-> TRUE, caps |-> <<>>] ELSE NoMatch
          [] a = "\\" -> IF i + 1 <= Len(pat) /\ j <= Len(s) /\ s[j] = pat[i + 1]
                            THEN RegexFrom(pat, i + 2, s, j + 1) ELSE NoMatch
          [] a = Group -> GroupTry(pat, i, s, j, RunLen(s, j))
          [] a = "." -> IF j <= Len(s) THEN RegexFrom(pat, i + 1, s, j + 1) ELSE NoMatch
          [] OTHER -> IF j <= Len(s) /\ s[j] = a
                            THEN RegexFrom(pat, i + 1, s, j + 1) ELSE NoMatch

\* ([^/]+) is greedy: longest run first, backtracking down to one character
GroupTry(pat, i, s, j, n) ==
    IF n < 1 THEN NoMatch
    ELSE LET r == RegexFrom(pat, i + 1, s, j + n) IN
        IF r.ok THEN [ok |-> TRUE, caps |-> <<SubSeq(s, j, j + n - 1)>> \o r.caps]
        ELSE GroupTry(pat, i, s, j, n - 1)

\* std::regex_match(path_str, matches, pattern): matches[1..] are r.caps
RegexMatch(pattern, path) == RegexFrom(pattern, 1, path, 1)

-----------------------------------------------------------------------------
(* Context *)

NoCtx == [router |-> 0, method |-> "", path |-> <<>>, params |-> <<>>,
          invoked |-> <<>>, routed |-> "none"]

\* Context(req, resp): no parameters, nothing invoked
NewCtx(method, path) ==
    [router |-> 0, method |-> method, path |-> path, params |-> <<>>,
     invoked |-> <<>>, routed |-> "none"]

\* HTTPResponse(): status 200, no Content-Type, empty body
NewResponse == [status |-> 200, contentType |-> "", body |-> ""]

\* Context::setParam: params_[name] = value
SetParam(params, name, value) ==
    [n \in (DOMAIN params) \cup {name} |-> IF n = name THEN value ELSE params[n]]

\* Context::status
Status(resp, code) == [resp EXCEPT !.status = code]

\* Context::header (the model keeps the Content-Type header only)
Header(resp, name, value) ==
    IF name = "Content-Type" THEN [resp EXCEPT !.contentType = value] ELSE resp

\* Context::body
Body(resp, content) == [resp EXCEPT !.body = content]

\* Context::json
Json(resp, data) == Body(Header(Status(resp, 200), "Content-Type", "application/json"), data)

\* Context::text
Text(resp, content) == Body(Header(Status(resp, 200), "Content-Type", "text/plain"), content)

\* Mutant: the captures are assigned to the names from the right
RECURSIVE SetParamsFrom_Reversed(_, _, _, _)
SetParamsFrom_Reversed(params, names, caps, i) ==
    IF i > Len(caps) THEN params
    ELSE SetParamsFrom_Reversed(SetParam(params, names[Len(caps) + 1 - i], caps[i]),
                                names, caps, i + 1)

SetParams_Reversed(params, names, caps) == SetParamsFrom_Reversed(params, names, caps, 1)

\* The loop "for i = 1 .. matches.size()-1: setParam(param_names[i-1], matches[i])"
RECURSIVE SetParamsFrom(_, _, _, _)
SetParamsFrom(params, names, caps, i) ==
    IF i > Len(caps) THEN params
    ELSE SetParamsFrom(SetParam(params, names[i], caps[i]), names, caps, i + 1)

SetParams(params, names, caps) == SetParamsFrom(params, names, caps, 1)

-----------------------------------------------------------------------------
(* Router::route *)

\* What route() does with a matching entry: parameters, handler call, return true
Dispatch(c, route, caps) ==
    [c EXCEPT !.params = SetParams(c.params, route.param_names, caps),
              !.invoked = Append(c.invoked, route.handler),
              !.routed = "true"]

\* Mutant: the method test is dropped
RECURSIVE RouteFrom_IgnoreMethod(_, _, _)
RouteFrom_IgnoreMethod(routes, c, k) ==
    IF k > Len(routes) THEN [c EXCEPT !.routed = "false"]
    ELSE LET m == RegexMatch(routes[k].pattern, c.path) IN
        IF m.ok THEN Dispatch(c, routes[k], m.caps)
        ELSE RouteFrom_IgnoreMethod(routes, c, k + 1)

RouterRoute_IgnoreMethod(routes, c) == RouteFrom_IgnoreMethod(routes, c, 1)

\* Mutant: the loop goes on after a match and reports the last entry's outcome
RECURSIVE RouteFrom_NoReturn(_, _, _)
RouteFrom_NoReturn(routes, c, k) ==
    IF k > Len(routes) THEN (IF c.routed = "true" THEN c ELSE [c EXCEPT !.routed = "false"])
    ELSE IF routes[k].method # c.method THEN RouteFrom_NoReturn(routes, c, k + 1)
    ELSE LET m == RegexMatch(routes[k].pattern, c.path) IN
        IF m.ok THEN RouteFrom_NoReturn(routes, Dispatch(c, routes[k], m.caps), k + 1)
        ELSE RouteFrom_NoReturn(routes, c, k + 1)

RouterRoute_NoReturn(routes, c) == RouteFrom_NoReturn(routes, c, 1)

\* The for loop of route() from entry k on Context c: the first entry with the
\* request's method whose pattern matches gets its parameters set and its
\* handler called; the result is the Context, with the return value in routed
RECURSIVE RouteFrom(_, _, _)
RouteFrom(routes, c, k) ==
    IF k > Len(routes) THEN [c EXCEPT !.routed = "false"]
    ELSE IF routes[k].method # c.method THEN RouteFrom(routes, c, k + 1)
    ELSE LET m == RegexMatch(routes[k].pattern, c.path) IN
        IF m.ok THEN Dispatch(c, routes[k], m.caps)
        ELSE RouteFrom(routes, c, k + 1)

RouterRoute(routes, c) == RouteFrom(routes, c, 1)

\* A route handler answers with ctx.text(...)
HandlerBody == "handled"
HandlerEffect(resp) == Text(resp, HandlerBody)

-----------------------------------------------------------------------------
(* Router operations *)

TotalRoutes == LET RECURSIVE Sum(_)
                   Sum(k) == IF k = 0 THEN 0 ELSE Len(routers[k].routes) + Sum(k - 1)
               IN  Sum(Len(routers))

\* Router::get / Router::post on router r: addRoute pushes onto r's own routes_
AddRoute(r, method, path) ==
    /\ UNCHANGED <<lifeVars, poolVars, compVars>>
    /\ pc = "idle" /\ ctx = NoCtx
    /\ TotalRoutes < MaxRoutes
    /\ routers' = [routers EXCEPT ![r].routes =
            Append(@, MakeRoute(routers[r].prefix, method, path, TotalRoutes + 1))]
    /\ UNCHANGED <<reqVars, pipeVars>>

\* Router::group on router r: a new Router object with the concatenated prefix
GroupRouter(r, prefix) ==
    /\ UNCHANGED <<lifeVars, poolVars, compVars>>
    /\ pc = "idle" /\ ctx = NoCtx
    /\ Len(routers) < MaxRouters
    /\ routers' = Append(routers,
            [prefix |-> routers[r].prefix \o prefix, parent |-> r, routes |-> <<>>])
    /\ UNCHANGED <<reqVars, pipeVars>>

\* Router::route(ctx) called on router r with a fresh Context
RouteCall(r, method, path) ==
    /\ UNCHANGED <<lifeVars, poolVars, compVars>>
    /\ pc = "idle" /\ ctx = NoCtx
    /\ ctx' = RouterRoute(routers[r].routes, [NewCtx(method, path) EXCEPT !.router = r])
    /\ response' = IF ctx'.routed = "true" THEN HandlerEffect(NewResponse) ELSE NewResponse
    /\ UNCHANGED <<routers, pipeVars>>

\* The Context goes out of scope
DropCtx ==
    /\ UNCHANGED <<lifeVars, poolVars, compVars>>
    /\ pc = "idle" /\ ctx # NoCtx
    /\ ctx' = NoCtx
    /\ response' = NewResponse
    /\ UNCHANGED <<routers, pipeVars>>

-----------------------------------------------------------------------------
(* Server: middleware pipeline and per-connection task *)

\* How often a middleware calls next()
NextCalls == {0, 1, 2}

UnauthorizedBody == "unauthorized"
NotFoundBody == "<h1>404 - Not Found</h1>"
BadRequestResponse == [status |-> 400, contentType |-> "text/plain", body |-> "Bad Request"]

\* No per-connection task is running
NoInput == [kind |-> "none", method |-> "", path |-> <<>>]

\* What the client socket delivers to handleClient
Inputs ==
    { [kind |-> "empty", method |-> "", path |-> <<>>],
      [kind |-> "invalid", method |-> "", path |-> <<>>] }
    \cup { [kind |-> "request", method |-> m, path |-> p] :
                m \in Methods, p \in { <<"/", "a">>, <<"/", "b">> } }

\* receive() throws instead of delivering bytes
FailedInputs == { [kind |-> "error", method |-> "", path |-> <<>>] }

\* Templates registered on the server's router in the pipeline runs
PipeTemplates == { <<"/", "a">>, <<"/", ":", "x">> }

\* Server::use
Use(calls) ==
    /\ UNCHANGED <<lifeVars, poolVars, compVars>>
    /\ pc = "idle" /\ ctx = NoCtx
    /\ Len(middlewares) < MaxMiddlewares
    /\ middlewares' = Append(middlewares, [calls |-> calls])
    /\ UNCHANGED <<routers, reqVars, stack, trace, pc, sent, total_requests, received>>

\* Mutant: the bound test is off by one, the last middleware is skipped
ExecuteMiddlewareChain_OffByOne(st, index) ==
    IF index + 1 < Len(middlewares)
    THEN LET mw == middlewares[index + 1] IN
         [st EXCEPT !.stack = Append(@, [index |-> index, left |-> mw.calls]),
                    !.trace = Append(@, <<"pre", index>>),
                    !.response = IF mw.calls = 0
                                 THEN Json(Status(@, 401), UnauthorizedBody) ELSE @]
    ELSE LET c == RouterRoute(routers[1].routes, st.ctx) IN
         IF c.routed = "true"
         THEN [st EXCEPT !.ctx = c,
                         !.response = HandlerEffect(@),
                         !.trace = Append(@, <<"route", c.invoked[Len(c.invoked)]>>)]
         ELSE [st EXCEPT !.ctx = c,
                         !.response = Body(Header(Status(@, 404), "Content-Type", "text/html"),
                                           NotFoundBody),
                         !.trace = Append(@, <<"404", 0>>)]

\* Mutant: a middleware that returns without next() is advanced anyway
ExecuteMiddlewareChain_AutoNext(st, index) ==
    IF index < Len(middlewares)
    THEN LET mw == middlewares[index + 1] IN
         [st EXCEPT !.stack = Append(@, [index |-> index,
                                         left |-> IF mw.calls = 0 THEN 1 ELSE mw.calls]),
                    !.trace = Append(@, <<"pre", index>>),
                    !.response = IF mw.calls = 0
                                 THEN Json(Status(@, 401), UnauthorizedBody) ELSE @]
    ELSE LET c == RouterRoute(routers[1].routes, st.ctx) IN
         IF c.routed = "true"
         THEN [st EXCEPT !.ctx = c,
                         !.response = HandlerEffect(@),
                         !.trace = Append(@, <<"route", c.invoked[Len(c.invoked)]>>)]
         ELSE [st EXCEPT !.ctx = c,
                         !.response = Body(Header(Status(@, 404), "Content-Type", "text/html"),
                                           NotFoundBody),
                         !.trace = Append(@, <<"404", 0>>)]

\* Server::executeMiddlewareChain(ctx, index) up to the point where control is
\* inside middleware index (its code before next() has run), or, past the last
\* middleware, after router_.route(ctx) and the 404 fallback.
\* st = [stack, ctx, response, trace].  A middleware that does not call next()
\* answers ctx.status(401).json(...) as in the documented auth middleware.
ExecuteMiddlewareChain(st, index) ==
    IF index < Len(middlewares)
    THEN LET mw == middlewares[index + 1] IN
         [st EXCEPT !.stack = Append(@, [index |-> index, left |-> mw.calls]),
                    !.trace = Append(@, <<"pre", index>>),
                    !.response = IF mw.calls = 0
                                 THEN Json(Status(@, 401), UnauthorizedBody) ELSE @]
    ELSE LET c == RouterRoute(routers[1].routes, st.ctx) IN
         IF c.routed = "true"
         THEN [st EXCEPT !.ctx = c,
                         !.response = HandlerEffect(@),
                         !.trace = Append(@, <<"route", c.invoked[Len(c.invoked)]>>)]
         ELSE [st EXCEPT !.ctx = c,
                         !.response = Body(Header(Status(@, 404), "Content-Type", "text/html"),
                                           NotFoundBody),
                         !.trace = Append(@, <<"404", 0>>)]

TaskState == [stack |-> stack, ctx |-> ctx, response |-> response, trace |-> trace]

SetTaskState(st) ==
    /\ stack' = st.stack
    /\ ctx' = st.ctx
    /\ response' = st.response
    /\ trace' = st.trace

\* Mutant: total_requests_ is incremented before the parse result is tested
HandleClient_CountsBeforeParse(in) ==
    /\ UNCHANGED <<lifeVars, poolVars, compVars>>
    /\ pc = "idle" /\ ctx = NoCtx
    /\ received' = in
    /\ CASE in.kind = "error" ->
              /\ pc' = "closed"
              /\ trace' = Append(trace, <<"catch", 0>>)
              /\ UNCHANGED <<reqVars, stack, sent, total_requests>>
         [] in.kind = "empty" ->
              /\ pc' = "closed"
              /\ UNCHANGED <<reqVars, stack, trace, sent, total_requests>>
         [] in.kind = "invalid" ->
              /\ pc' = "closed"
              /\ sent' = Append(sent, BadRequestResponse)
              /\ trace' = Append(trace, <<"send", 400>>)
              /\ total_requests < MaxRequests
              /\ total_requests' = total_requests + 1
              /\ UNCHANGED <<reqVars, stack>>
         [] OTHER ->
              /\ total_requests < MaxRequests
              /\ total_requests' = total_requests + 1
              /\ pc' = "chain"
              /\ SetTaskState(ExecuteMiddlewareChain(
                     [stack |-> <<>>, ctx |-> NewCtx(in.method, in.path),
                      response |-> NewResponse, trace |-> <<>>], 0))
              /\ UNCHANGED sent
    /\ UNCHANGED <<routers, middlewares>>

\* Server::handleClient up to the first middleware (or the router): receive
\* (which throws on a socket error and returns 0 bytes when the peer sent
\* nothing), parse, total_requests_++, then processRequest ->
\* executeMiddlewareChain(ctx, 0)
HandleClient(in) ==
    /\ UNCHANGED <<lifeVars, poolVars, compVars>>
    /\ pc = "idle" /\ ctx = NoCtx
    /\ received' = in
    /\ CASE in.kind = "error" ->
              /\ pc' = "closed"
              /\ trace' = Append(trace, <<"catch", 0>>)
              /\ UNCHANGED <<reqVars, stack, sent, total_requests>>
         [] in.kind = "empty" ->
              /\ pc' = "closed"
              /\ UNCHANGED <<reqVars, stack, trace, sent, total_requests>>
         [] in.kind = "invalid" ->
              /\ pc' = "closed"
              /\ sent' = Append(sent, BadRequestResponse)
              /\ trace' = Append(trace, <<"send", 400>>)
              /\ UNCHANGED <<reqVars, stack, total_requests>>
         [] OTHER ->
              /\ total_requests < MaxRequests
              /\ total_requests' = total_requests + 1
              /\ pc' = "chain"
              /\ SetTaskState(ExecuteMiddlewareChain(
                     [stack |-> <<>>, ctx |-> NewCtx(in.method, in.path),
                      response |-> NewResponse, trace |-> <<>>], 0))
              /\ UNCHANGED sent
    /\ UNCHANGED <<routers, middlewares>>

\* The running middleware calls next(): executeMiddlewareChain(ctx, index + 1)
MwNext ==
    /\ UNCHANGED <<lifeVars, poolVars, compVars>>
    /\ pc = "chain" /\ stack # <<>>
    /\ stack[Len(stack)].left > 0
    /\ SetTaskState(ExecuteMiddlewareChain(
            [TaskState EXCEPT !.stack[Len(stack)].left = @ - 1],
            stack[Len(stack)].index + 1))
    /\ UNCHANGED <<routers, middlewares, pc, sent, total_requests, received>>

\* The running middleware runs its code after next() and returns
MwReturn ==
    /\ UNCHANGED <<lifeVars, poolVars, compVars>>
    /\ pc = "chain" /\ stack # <<>>
    /\ stack[Len(stack)].left = 0
    /\ trace' = Append(trace, <<"post", stack[Len(stack)].index>>)
    /\ stack' = SubSeq(stack, 1, Len(stack) - 1)
    /\ UNCHANGED <<routers, reqVars, middlewares, pc, sent, total_requests, received>>

\* processRequest has returned: client.send(response.build())
Send ==
    /\ UNCHANGED <<lifeVars, poolVars, compVars>>
    /\ pc = "chain" /\ stack = <<>>
    /\ sent' = Append(sent, response)
    /\ trace' = Append(trace, <<"send", response.status>>)
    /\ pc' = "closed"
    /\ UNCHANGED <<routers, reqVars, middlewares, stack, total_requests, received>>

\* A std::exception leaves the code the task is running (a middleware, the
\* route handler below it, or client.send): the stack unwinds to the catch
\* block of handleClient, which logs the error
Throw ==
    /\ UNCHANGED <<lifeVars, poolVars, compVars>>
    /\ pc = "chain"
    /\ stack' = <<>>
    /\ trace' = Append(trace, <<"catch", 0>>)
    /\ pc' = "closed"
    /\ UNCHANGED <<routers, reqVars, middlewares, sent, total_requests, received>>

\* handleClient returns: the client socket and the Context are destroyed
TaskExit ==
    /\ UNCHANGED <<lifeVars, poolVars, compVars>>
    /\ pc = "closed"
    /\ pc' = "idle"
    /\ ctx' = NoCtx
    /\ response' = NewResponse
    /\ stack' = <<>>
    /\ trace' = <<>>
    /\ sent' = <<>>
    /\ received' = NoInput
    /\ UNCHANGED <<routers, middlewares, total_requests>>

-----------------------------------------------------------------------------
(* Server: plugins, start(), stop(), accept loop, worker pool *)

\* The threads that call stop()
StopThreads == {"t1"}

PluginNames == {"A", "B", "C"}
Priorities == {100, 500}

\* A plugin: name(), priority(), what initialize() and onServerStart() return,
\* the template registerRoutes() registers with router.get (<<>>: none) and
\* how often the middleware registerMiddleware() adds calls next() (-1: none)
PluginInputs ==
    [name : PluginNames, priority : Priorities, initOk : BOOLEAN, startOk : BOOLEAN,
     template : {<<>>} \cup PipeTemplates, mw : {-1} \cup NextCalls]

\* The null plugin pointer
NoPlugin ==
    [name |-> "", priority |-> 0, initOk |-> FALSE, startOk |-> FALSE, template |-> <<>>, mw |-> -1]

\* Plugins with the default registerRoutes/registerMiddleware whose initialize succeeds
PlainPlugins ==
    { p \in PluginInputs : p.initOk /\ p.template = <<>> /\ p.mw = -1 }

IsSortedByPriority(s) == \A i, j \in 1..Len(s) : i < j => s[i].priority <= s[j].priority

\* std::sort(plugins_, a->priority() < b->priority()): the order of plugins of
\* equal priority is unspecified, so every sorted permutation can result
SortOutcomes(s) ==
    { q \in { [i \in 1..Len(s) |-> s[f[i]]] : f \in Permutations(1..Len(s)) } :
        IsSortedByPriority(q) }

\* Mutant: the loop that looks for a loaded plugin of the same name is missing
AddPlugin_NoDuplicateTest(p) ==
    /\ mainPc = "idle" /\ \A t \in StopThreads : stopPc[t] = "idle"
    /\ pc = "idle" /\ ctx = NoCtx
    /\ Len(plugins) < MaxPlugins
    /\ Len(hooks) < MaxHooks
    /\ p.template # <<>> => TotalRoutes < MaxRoutes
    /\ p.mw # -1 => Len(middlewares) < MaxMiddlewares
    /\ IF FALSE
       THEN /\ addResult' = [plugin |-> p, value |-> "false"]
            /\ UNCHANGED <<routers, middlewares, plugins, hooks>>
       ELSE IF ~p.initOk
       THEN /\ addResult' = [plugin |-> p, value |-> "false"]
            /\ hooks' = Append(hooks, <<"initialize", p.name>>)
            /\ UNCHANGED <<routers, middlewares, plugins>>
       ELSE /\ addResult' = [plugin |-> p, value |-> "true"]
            /\ hooks' = Append(hooks, <<"initialize", p.name>>)
            /\ routers' = IF p.template = <<>> THEN routers
                          ELSE [routers EXCEPT ![1].routes =
                                  Append(@, MakeRoute(routers[1].prefix, "GET", p.template,
                                                      TotalRoutes + 1))]
            /\ middlewares' = IF p.mw = -1 THEN middlewares
                              ELSE Append(middlewares, [calls |-> p.mw])
            /\ plugins' \in SortOutcomes(Append(plugins, p))
    /\ UNCHANGED <<reqVars, stack, trace, pc, sent, total_requests, received, running, socket, mainPc,
                   mainIdx, startResult, starts, stopPc, stopIdx, epoch, poolVars, compVars>>

\* Mutant: the result of initialize() is ignored
AddPlugin_IgnoresInitialize(p) ==
    /\ mainPc = "idle" /\ \A t \in StopThreads : stopPc[t] = "idle"
    /\ pc = "idle" /\ ctx = NoCtx
    /\ Len(plugins) < MaxPlugins
    /\ Len(hooks) < MaxHooks
    /\ p.template # <<>> => TotalRoutes < MaxRoutes
    /\ p.mw # -1 => Len(middlewares) < MaxMiddlewares
    /\ IF \E i \in 1..Len(plugins) : plugins[i].name = p.name
       THEN /\ addResult' = [plugin |-> p, value |-> "false"]
            /\ UNCHANGED <<routers, middlewares, plugins, hooks>>
       ELSE IF FALSE
       THEN /\ addResult' = [plugin |-> p, value |-> "false"]
            /\ hooks' = Append(hooks, <<"initialize", p.name>>)
            /\ UNCHANGED <<routers, middlewares, plugins>>
       ELSE /\ addResult' = [plugin |-> p, value |-> "true"]
            /\ hooks' = Append(hooks, <<"initialize", p.name>>)
            /\ routers' = IF p.template = <<>> THEN routers
                          ELSE [routers EXCEPT ![1].routes =
                                  Append(@, MakeRoute(routers[1].prefix, "GET", p.template,
                                                      TotalRoutes + 1))]
            /\ middlewares' = IF p.mw = -1 THEN middlewares
                              ELSE Append(middlewares, [calls |-> p.mw])
            /\ plugins' \in SortOutcomes(Append(plugins, p))
    /\ UNCHANGED <<reqVars, stack, trace, pc, sent, total_requests, received, running, socket, mainPc,
                   mainIdx, startResult, starts, stopPc, stopIdx, epoch, poolVars, compVars>>

\* Mutant: what a plugin registers is put in front of what was registered before
AddPlugin_RegistersInFront(p) ==
    /\ mainPc = "idle" /\ \A t \in StopThreads : stopPc[t] = "idle"
    /\ pc = "idle" /\ ctx = NoCtx
    /\ Len(plugins) < MaxPlugins
    /\ Len(hooks) < MaxHooks
    /\ p.template # <<>> => TotalRoutes < MaxRoutes
    /\ p.mw # -1 => Len(middlewares) < MaxMiddlewares
    /\ IF \E i \in 1..Len(plugins) : plugins[i].name = p.name
       THEN /\ addResult' = [plugin |-> p, value |-> "false"]
            /\ UNCHANGED <<routers, middlewares, plugins, hooks>>
       ELSE IF ~p.initOk
       THEN /\ addResult' = [plugin |-> p, value |-> "false"]
            /\ hooks' = Append(hooks, <<"initialize", p.name>>)
            /\ UNCHANGED <<routers, middlewares, plugins>>
       ELSE /\ addResult' = [plugin |-> p, value |-> "true"]
            /\ hooks' = Append(hooks, <<"initialize", p.name>>)
            /\ routers' = IF p.template = <<>> THEN routers
                          ELSE [routers EXCEPT ![1].routes =
                                  <<MakeRoute(routers[1].prefix, "GET", p.template,
                                                    TotalRoutes + 1)>> \o @]
            /\ middlewares' = IF p.mw = -1 THEN middlewares
                              ELSE <<[calls |-> p.mw]>> \o middlewares
            /\ plugins' \in SortOutcomes(Append(plugins, p))
    /\ UNCHANGED <<reqVars, stack, trace, pc, sent, total_requests, received, running, socket, mainPc,
                   mainIdx, startResult, starts, stopPc, stopIdx, epoch, poolVars, compVars>>

\* Server::addPlugin: the duplicate test, initialize(), registerRoutes(router_),
\* registerMiddleware(*this), push_back and the sort
AddPlugin(p) ==
    /\ mainPc = "idle" /\ \A t \in StopThreads : stopPc[t] = "idle"
    /\ pc = "idle" /\ ctx = NoCtx
    /\ Len(plugins) < MaxPlugins
    /\ Len(hooks) < MaxHooks
    /\ p.template # <<>> => TotalRoutes < MaxRoutes
    /\ p.mw # -1 => Len(middlewares) < MaxMiddlewares
    /\ IF \E i \in 1..Len(plugins) : plugins[i].name = p.name
       THEN /\ addResult' = [plugin |-> p, value |-> "false"]
            /\ UNCHANGED <<routers, middlewares, plugins, hooks>>
       ELSE IF ~p.initOk
       THEN /\ addResult' = [plugin |-> p, value |-> "false"]
            /\ hooks' = Append(hooks, <<"initialize", p.name>>)
            /\ UNCHANGED <<routers, middlewares, plugins>>
       ELSE /\ addResult' = [plugin |-> p, value |-> "true"]
            /\ hooks' = Append(hooks, <<"initialize", p.name>>)
            /\ routers' = IF p.template = <<>> THEN routers
                          ELSE [routers EXCEPT ![1].routes =
                                  Append(@, MakeRoute(routers[1].prefix, "GET", p.template,
                                                      TotalRoutes + 1))]
            /\ middlewares' = IF p.mw = -1 THEN middlewares
                              ELSE Append(middlewares, [calls |-> p.mw])
            /\ plugins' \in SortOutcomes(Append(plugins, p))
    /\ UNCHANGED <<reqVars, stack, trace, pc, sent, total_requests, received, running, socket, mainPc,
                   mainIdx, startResult, starts, stopPc, stopIdx, epoch, poolVars, compVars>>

\* Server::removePlugin: the first plugin of that name is shut down and erased
RemovePlugin(name) ==
    /\ mainPc = "idle" /\ \A t \in StopThreads : stopPc[t] = "idle"
    /\ pc = "idle" /\ ctx = NoCtx
    /\ Len(hooks) < MaxHooks
    /\ \E i \in 1..Len(plugins) :
          /\ plugins[i].name = name
          /\ \A j \in 1..(i - 1) : plugins[j].name # name
          /\ hooks' = Append(hooks, <<"shutdown", name>>)
          /\ plugins' = SubSeq(plugins, 1, i - 1) \o SubSeq(plugins, i + 1, Len(plugins))
    /\ UNCHANGED <<routers, reqVars, pipeVars, running, socket, mainPc, mainIdx, startResult,
                   starts, stopPc, stopIdx, epoch, addResult, poolVars, compVars>>

\* start(): "if (running_) return"; otherwise the plugin loop begins
StartBegin ==
    /\ mainPc = "idle"
    /\ starts < MaxStarts
    /\ IF running
       THEN UNCHANGED <<mainPc, mainIdx, starts, epoch, startResult>>
       ELSE /\ mainPc' = "plugins"
            /\ mainIdx' = 1
            /\ starts' = starts + 1
            /\ epoch' = Len(hooks)
            /\ startResult' = "none"
    /\ UNCHANGED <<routers, reqVars, pipeVars, addResult, plugins, running, socket, stopPc, stopIdx,
                   hooks, poolVars, compVars>>

\* Mutant: the result of onServerStart() is ignored
StartPlugin_IgnoresResult ==
    /\ mainPc = "plugins"
    /\ mainIdx <= Len(plugins)
    /\ hooks' = Append(hooks, <<"start", plugins[mainIdx].name>>)
    /\ mainIdx' = mainIdx + 1
    /\ UNCHANGED <<mainPc, running, startResult>>
    /\ UNCHANGED <<routers, reqVars, pipeVars, addResult, plugins, socket, starts, stopPc,
                   stopIdx, epoch, poolVars, compVars>>

\* start(): plugin->onServerStart() of the next plugin; false throws, the
\* catch block clears running_ and rethrows
StartPlugin ==
    /\ mainPc = "plugins"
    /\ mainIdx <= Len(plugins)
    /\ hooks' = Append(hooks, <<"start", plugins[mainIdx].name>>)
    /\ IF plugins[mainIdx].startOk
       THEN /\ mainIdx' = mainIdx + 1
            /\ UNCHANGED <<mainPc, running, startResult>>
       ELSE /\ running' = FALSE
            /\ mainPc' = "idle"
            /\ startResult' = "plugin_failed"
            /\ UNCHANGED mainIdx
    /\ UNCHANGED <<routers, reqVars, pipeVars, addResult, plugins, socket, starts, stopPc, stopIdx,
                   epoch, poolVars, compVars>>

\* Mutant: a bind/listen failure is swallowed and start() goes on
Bind_SwallowsFailure(ok) ==
    /\ mainPc = "plugins"
    /\ mainIdx > Len(plugins)
    /\ socket' = IF ok THEN "listening" ELSE "open"
    /\ mainPc' = "setrun"
    /\ UNCHANGED <<running, startResult>>
    /\ UNCHANGED <<routers, reqVars, pipeVars, addResult, plugins, mainIdx, starts, stopPc,
                   stopIdx, hooks, epoch, poolVars, compVars>>

\* start(): make_unique<Socket>, bind, listen; a failure throws, the catch
\* block clears running_ and rethrows
Bind(ok) ==
    /\ mainPc = "plugins"
    /\ mainIdx > Len(plugins)
    /\ IF ok
       THEN /\ socket' = "listening"
            /\ mainPc' = "setrun"
            /\ UNCHANGED <<running, startResult>>
       ELSE /\ socket' = "open"
            /\ running' = FALSE
            /\ mainPc' = "idle"
            /\ startResult' = "bind_failed"
    /\ UNCHANGED <<routers, reqVars, pipeVars, addResult, plugins, mainIdx, starts, stopPc, stopIdx,
                   hooks, epoch, poolVars, compVars>>

\* start(): running_ = true, then acceptLoop()
SetRunning ==
    /\ mainPc = "setrun"
    /\ running' = TRUE
    /\ mainPc' = "loop"
    /\ UNCHANGED <<routers, reqVars, pipeVars, addResult, plugins, socket, mainIdx, startResult, starts,
                   stopPc, stopIdx, hooks, epoch, poolVars, compVars>>

\* acceptLoop(): "while (running_)"; when it is false start() returns
LoopTest ==
    /\ mainPc = "loop"
    /\ IF running
       THEN mainPc' = "accept" /\ UNCHANGED startResult
       ELSE mainPc' = "idle" /\ startResult' = "returned"
    /\ UNCHANGED <<routers, reqVars, pipeVars, addResult, plugins, running, socket, mainIdx, starts,
                   stopPc, stopIdx, hooks, epoch, poolVars, compVars>>

\* acceptLoop(): accept() returns a client; active_connections_++ and the
\* per-connection task is submitted to the pool
AcceptClient ==
    /\ mainPc = "accept"
    /\ socket = "listening"
    /\ accepted < MaxConnections
    /\ accepted' = accepted + 1
    /\ active' = active + 1
    /\ queued' = queued + 1
    /\ mainPc' = "loop"
    /\ UNCHANGED <<routers, reqVars, pipeVars, addResult, plugins, running, socket, mainIdx, startResult,
                   starts, stopPc, stopIdx, hooks, epoch, busy, closed, compVars>>

\* acceptLoop(): accept() returns a client and active_connections_++, then
\* thread_pool_->submit throws: the task, and with it the client socket, is
\* destroyed, the exception is caught and the loop goes on
SubmitFail ==
    /\ mainPc = "accept"
    /\ socket = "listening"
    /\ accepted < MaxConnections
    /\ accepted' = accepted + 1
    /\ active' = active + 1
    /\ closed' = closed + 1
    /\ mainPc' = "loop"
    /\ UNCHANGED <<routers, reqVars, pipeVars, addResult, plugins, running, socket, mainIdx,
                   startResult, starts, stopPc, stopIdx, hooks, epoch, queued, busy, compVars>>

\* acceptLoop(): accept() throws (closed socket, or any other failure); the
\* exception is caught and the loop goes on
AcceptFail ==
    /\ mainPc = "accept"
    /\ mainPc' = "loop"
    /\ UNCHANGED <<routers, reqVars, pipeVars, addResult, plugins, running, socket, mainIdx, startResult,
                   starts, stopPc, stopIdx, hooks, epoch, poolVars, compVars>>

\* A pool worker takes a submitted task: handleClient begins
TaskBegin ==
    /\ queued > 0
    /\ queued' = queued - 1
    /\ busy' = busy + 1
    /\ UNCHANGED <<routers, reqVars, pipeVars, lifeVars, active, accepted, closed, compVars>>

\* Mutant: the task ends without its client socket being closed
TaskEnd_LeaksSocket ==
    /\ busy > 0
    /\ busy' = busy - 1
    /\ active' = active - 1
    /\ UNCHANGED <<routers, reqVars, pipeVars, lifeVars, queued, accepted, closed, compVars>>

\* The task's handleClient call is over: its client socket has been destroyed
\* (closed), active_connections_--
TaskEnd ==
    /\ busy > 0
    /\ busy' = busy - 1
    /\ active' = active - 1
    /\ closed' = closed + 1
    /\ UNCHANGED <<routers, reqVars, pipeVars, lifeVars, queued, accepted, compVars>>

\* Where stop() goes after running_ = false and after each loop
AfterStopLoop(phase) ==
    IF Len(plugins) = 0 THEN "close"
    ELSE IF phase = "set" THEN "onstop" ELSE IF phase = "onstop" THEN "shutdown" ELSE "close"

\* stop() in thread t: "if (!running_) return"
StopTest(t) ==
    /\ stopPc[t] = "idle"
    /\ IF running THEN stopPc' = [stopPc EXCEPT ![t] = "set"] ELSE UNCHANGED stopPc
    /\ UNCHANGED <<routers, reqVars, pipeVars, addResult, plugins, running, socket, mainPc, mainIdx,
                   startResult, starts, stopIdx, hooks, epoch, poolVars, compVars>>

\* stop(): running_ = false
StopSet(t) ==
    /\ stopPc[t] = "set"
    /\ running' = FALSE
    /\ stopPc' = [stopPc EXCEPT ![t] = AfterStopLoop("set")]
    /\ stopIdx' = [stopIdx EXCEPT ![t] = 1]
    /\ UNCHANGED <<routers, reqVars, pipeVars, addResult, plugins, socket, mainPc, mainIdx,
                   startResult, starts, hooks, epoch, poolVars, compVars>>

\* Mutant: one loop that calls onServerStop() and shutdown() plugin by plugin
StopOnServerStop_ShutsDownAtOnce(t) ==
    /\ stopPc[t] = "onstop"
    /\ hooks' = hooks \o << <<"stop", plugins[stopIdx[t]].name>>,
                            <<"shutdown", plugins[stopIdx[t]].name>> >>
    /\ IF stopIdx[t] < Len(plugins)
       THEN stopIdx' = [stopIdx EXCEPT ![t] = @ + 1] /\ UNCHANGED stopPc
       ELSE /\ stopIdx' = [stopIdx EXCEPT ![t] = 1]
            /\ stopPc' = [stopPc EXCEPT ![t] = AfterStopLoop("onstop")]
    /\ UNCHANGED <<routers, reqVars, pipeVars, addResult, plugins, running, socket, mainPc, mainIdx,
                   startResult, starts, epoch, poolVars, compVars>>

\* stop(): first loop, plugin->onServerStop() in plugins_ order
StopOnServerStop(t) ==
    /\ stopPc[t] = "onstop"
    /\ hooks' = Append(hooks, <<"stop", plugins[stopIdx[t]].name>>)
    /\ IF stopIdx[t] < Len(plugins)
       THEN stopIdx' = [stopIdx EXCEPT ![t] = @ + 1] /\ UNCHANGED stopPc
       ELSE /\ stopIdx' = [stopIdx EXCEPT ![t] = 1]
            /\ stopPc' = [stopPc EXCEPT ![t] = AfterStopLoop("onstop")]
    /\ UNCHANGED <<routers, reqVars, pipeVars, addResult, plugins, running, socket, mainPc, mainIdx,
                   startResult, starts, epoch, poolVars, compVars>>

\* stop(): second loop, plugin->shutdown() in plugins_ order
StopShutdown(t) ==
    /\ stopPc[t] = "shutdown"
    /\ hooks' = Append(hooks, <<"shutdown", plugins[stopIdx[t]].name>>)
    /\ IF stopIdx[t] < Len(plugins)
       THEN stopIdx' = [stopIdx EXCEPT ![t] = @ + 1] /\ UNCHANGED stopPc
       ELSE /\ stopIdx' = [stopIdx EXCEPT ![t] = 1]
            /\ stopPc' = [stopPc EXCEPT ![t] = AfterStopLoop("shutdown")]
    /\ UNCHANGED <<routers, reqVars, pipeVars, addResult, plugins, running, socket, mainPc, mainIdx,
                   startResult, starts, epoch, poolVars, compVars>>

\* Mutant: stop() returns without closing the listening socket
StopClose_LeavesSocketOpen(t) ==
    /\ stopPc[t] = "close"
    /\ stopPc' = [stopPc EXCEPT ![t] = "idle"]
    /\ UNCHANGED <<routers, reqVars, pipeVars, addResult, plugins, running, socket, mainPc,
                   mainIdx, startResult, starts, stopIdx, hooks, epoch, poolVars, compVars>>

\* stop(): "if (server_socket_) server_socket_->close()", then stop() returns
StopClose(t) ==
    /\ stopPc[t] = "close"
    /\ socket' = IF socket = "none" THEN "none" ELSE "closed"
    /\ stopPc' = [stopPc EXCEPT ![t] = "idle"]
    /\ UNCHANGED <<routers, reqVars, pipeVars, addResult, plugins, running, mainPc, mainIdx,
                   startResult, starts, stopIdx, hooks, epoch, poolVars, compVars>>

-----------------------------------------------------------------------------
(* MultipartParser (src/src/http/multipart_parser.cpp)                      *)
(*                                                                          *)
(* A body is a sequence of bytes.  The bytes of the model are "-", the      *)
(* boundary byte "B", CR, LF, the data byte "d", the byte "j" of a section  *)
(* that has no header terminator, and one byte per header line: a header    *)
(* line is a single token whose decoding (parsePartHeaders,                 *)
(* parseContentDisposition) is the table HeaderLine.  Positions are counted *)
(* from 0 as in std::string_view, and -1 stands for npos.                   *)

CR == "\r"
LF == "\n"
CRLF == <<CR, LF>>
CRLFCRLF == <<CR, LF, CR, LF>>

\* The boundary token the client chose
Boundary == <<"B">>

MaxParts == 2
MaxDataLen == 1

\* std::string_view::substr(pos, n)
Substr(s, pos, n) ==
    IF pos >= Len(s) THEN <<>>
    ELSE SubSeq(s, pos + 1, IF pos + n > Len(s) THEN Len(s) ELSE pos + n)

\* std::string_view::find(pat, from)
Find(s, pat, from) ==
    LET hits == { i \in from..(Len(s) - Len(pat)) : SubSeq(s, i + 1, i + Len(pat)) = pat }
    IN  IF hits = {} THEN -1 ELSE CHOOSE i \in hits : \A j \in hits : i <= j

\* A part as default-constructed (MultipartPart part;)
NewPart == [name |-> "", filename |-> "", content_type |-> "", data |-> <<>>]

\* What one header line does to the part: Content-Disposition sets name and,
\* when given, filename; Content-Type sets content_type; any other line (one
\* without a colon, or another header) leaves these fields alone
HeaderLine(part, line) ==
    CASE line = "disp_a" -> [part EXCEPT !.name = "a"]
      [] line = "disp_b_file" -> [part EXCEPT !.name = "b", !.filename = "f.bin"]
      [] line = "type_octet" -> [part EXCEPT !.content_type = "application/octet-stream"]
      [] OTHER -> part

RECURSIVE PartHeadersFrom(_, _, _)
PartHeadersFrom(header_section, pos, part) ==
    IF pos >= Len(header_section) THEN part
    ELSE LET found == Find(header_section, CRLF, pos)
             line_end == IF found = -1 THEN Len(header_section) ELSE found
             line == Substr(header_section, pos, line_end - pos)
         IN  PartHeadersFrom(header_section, line_end + 2,
                             IF Len(line) = 1 THEN HeaderLine(part, line[1]) ELSE part)

\* parsePartHeaders(header_section, part)
ParsePartHeaders(header_section, part) == PartHeadersFrom(header_section, 0, part)

\* while (!body_section.empty() && (back() == '\r' || back() == '\n')) remove_suffix(1)
RECURSIVE StripTrailing(_)
StripTrailing(body_section) ==
    IF body_section # <<>> /\ body_section[Len(body_section)] \in {CR, LF}
    THEN StripTrailing(SubSeq(body_section, 1, Len(body_section) - 1))
    ELSE body_section

\* The part stored for a section that has its header terminator at header_end
MakePart(part_data, header_end) ==
    [ ParsePartHeaders(Substr(part_data, 0, header_end), NewPart)
      EXCEPT !.data = StripTrailing(Substr(part_data, header_end + 4, Len(part_data))) ]

\* The while loop of parse, entered with start and the parts stored so far
RECURSIVE ParseLoop(_, _, _, _)
ParseLoop(body, boundary_start, start, parts) ==
    IF start >= Len(body) THEN parts
    ELSE LET boundary_end == boundary_start \o <<"-", "-">>
             skipped == IF start < Len(body) - 1 /\ body[start + 1] = CR /\ body[start + 2] = LF
                        THEN start + 2 ELSE start
             next_boundary == Find(body, boundary_start, skipped)
         IN  IF next_boundary = -1 THEN parts
             ELSE LET part_data == Substr(body, skipped, next_boundary - skipped)
                      header_end == Find(part_data, CRLFCRLF, 0)
                      after == next_boundary + Len(boundary_start)
                  IN  IF header_end = -1
                      THEN ParseLoop(body, boundary_start, after, parts)
                      ELSE LET stored == Append(parts, MakePart(part_data, header_end))
                           IN  IF Substr(body, next_boundary, Len(boundary_end)) = boundary_end
                               THEN stored
                               ELSE ParseLoop(body, boundary_start, after, stored)

\* The parts parse stores, from the first boundary on
PartsFrom(body, boundary_start, start) == ParseLoop(body, boundary_start, start, <<>>)

\* MultipartParser::parse(body, boundary): parts_ and the value returned
Parse(body, boundary) ==
    IF boundary = <<>> THEN [parts |-> <<>>, ok |-> FALSE]
    ELSE LET boundary_start == <<"-", "-">> \o boundary
             start == Find(body, boundary_start, 0)
         IN  IF start = -1 THEN [parts |-> <<>>, ok |-> FALSE]
             ELSE LET parts == PartsFrom(body, boundary_start, start + Len(boundary_start))
                  IN  [parts |-> parts, ok |-> parts # <<>>]

(* The bodies handed to parse *)

RECURSIVE SeqsUpTo(_, _)
SeqsUpTo(S, n) ==
    IF n = 0 THEN {<<>>}
    ELSE LET shorter == SeqsUpTo(S, n - 1)
         IN  shorter \cup { Append(q, x) : q \in { r \in shorter : Len(r) = n - 1 }, x \in S }

\* The header blocks a client sends with a part
HeaderBlocks == { <<"disp_a">>, <<"disp_b_file", "type_octet">> }

\* The data of a part: any bytes, CR and LF among them
DataBytes == {"d", CR, LF}

\* A section between two markers: a part (header lines, data), or bytes
\* that have no header terminator
Sections ==
    [kind : {"part"}, lines : HeaderBlocks, data : SeqsUpTo(DataBytes, MaxDataLen)]
        \cup { [kind |-> "junk", lines |-> <<>>, data |-> <<"j">>] }

\* What follows the terminating marker: nothing, or bytes in which a further
\* marker and a further section occur
Epilogues == { <<>>, <<[kind |-> "part", lines |-> <<"disp_a">>, data |-> <<"d">>]>> }

NoBody == [sections |-> <<>>, epilogue |-> <<>>]

RECURSIVE JoinLines(_)
JoinLines(lines) ==
    IF lines = <<>> THEN <<>>
    ELSE IF Len(lines) = 1 THEN <<lines[1]>>
    ELSE <<lines[1]>> \o CRLF \o JoinLines(Tail(lines))

\* The bytes of one section, up to the marker that follows it
SectionBytes(sec) ==
    IF sec.kind = "part"
    THEN JoinLines(sec.lines) \o CRLFCRLF \o sec.data \o CRLF
    ELSE sec.data \o CRLF

\* --B CRLF section, for each section
RECURSIVE Delimited(_, _)
Delimited(boundary, sections) ==
    IF sections = <<>> THEN <<>>
    ELSE <<"-", "-">> \o boundary \o CRLF \o SectionBytes(Head(sections))
            \o Delimited(boundary, Tail(sections))

\* The body a client assembles from the sections, ended by --B--
Terminated(boundary, sections) ==
    Delimited(boundary, sections) \o <<"-", "-">> \o boundary \o <<"-", "-">>

\* The whole body: the terminated part list and what follows it
Assemble(boundary, in) ==
    Terminated(boundary, in.sections)
        \o (IF in.epilogue = <<>> THEN <<>>
            ELSE CRLF \o Terminated(boundary, in.epilogue))

\* parser.parse(body, boundary)
ParseCall ==
    /\ parseResult = "none"
    /\ LET r == Parse(Assemble(Boundary, mpInput), Boundary)
       IN  /\ parts_' = r.parts
           /\ parseResult' = IF r.ok THEN "true" ELSE "false"
    /\ UNCHANGED <<mpInput, serverVars, fsVars, streamVars, parseVars>>

-----------------------------------------------------------------------------
(* FileSystemUtils::securePath and StaticFilesPlugin::handleStaticFile      *)
(*                                                                          *)
(* A path is the sequence of its segments; an absolute path is counted from *)
(* "/".  The file system holds the document root /w with the index file     *)
(* /w/i, the directory /w/d with a file /w/d/i that is larger than          *)
(* max_file_size, a directory /o outside the root with the file /o/s, and   *)
(* the symbolic link /w/l to /o.                                            *)

MaxSegments == 3

\* config_.root after initialize(): the canonical document root
DocRoot == <<"w">>

\* config_.default_file
DefaultFile == "i"

Dirs == { <<>>, <<"w">>, <<"w", "d">>, <<"o">> }
Files == { <<"w", "i">>, <<"w", "d", "i">>, <<"o", "s">> }
BigFiles == { <<"w", "d", "i">> }
Links == { <<"w", "l">> }
LinkTarget(p) == <<"o">>

\* The segments a requested path is made of
Segments == {"", ".", "..", "i", "d", "l", "o", "s"}

\* The paths of the requests, after the leading "/" (the mount path)
Requests == SeqsUpTo(Segments, MaxSegments)

\* How the operating system follows a path from the directory cur: "." and
\* empty segments stay, ".." goes to the parent, a symbolic link is followed,
\* and every step but the last must arrive at a directory
RECURSIVE Walk(_, _)
Walk(cur, rest) ==
    IF rest = <<>> THEN [ok |-> cur \in Dirs \cup Files, path |-> cur]
    ELSE IF cur \notin Dirs THEN [ok |-> FALSE, path |-> cur]
    ELSE LET seg == Head(rest)
             next == IF seg \in {"", "."} THEN cur
                     ELSE IF seg = ".." THEN (IF cur = <<>> THEN cur ELSE SubSeq(cur, 1, Len(cur) - 1))
                     ELSE IF Append(cur, seg) \in Links THEN LinkTarget(Append(cur, seg))
                     ELSE Append(cur, seg)
         IN  Walk(next, Tail(rest))

\* std::filesystem::exists
Exists(p) == Walk(<<>>, p).ok

\* std::filesystem::canonical (of a path that exists)
Canonical(p) == Walk(<<>>, p).path

\* std::filesystem::is_directory, is_regular_file
IsDirectory(p) == Exists(p) /\ Canonical(p) \in Dirs
IsRegularFile(p) == Exists(p) /\ Canonical(p) \in Files

\* Collapsing "." and ".." lexically: an empty or "." segment is dropped,
\* ".." takes back the segment before it; where there is none it is kept
\* in a relative path and dropped in an absolute one
RECURSIVE Collapse(_, _, _)
Collapse(done, rest, absolute) ==
    IF rest = <<>> THEN done
    ELSE LET seg == Head(rest)
             next == IF seg \in {"", "."} THEN done
                     ELSE IF seg # ".." THEN Append(done, seg)
                     ELSE IF done # <<>> /\ done[Len(done)] # ".."
                          THEN SubSeq(done, 1, Len(done) - 1)
                     ELSE IF absolute THEN done
                     ELSE Append(done, seg)
         IN  Collapse(next, Tail(rest), absolute)

\* FileSystemUtils::normalizePath(requested_path)
NormalizePath(requested_path) == Collapse(<<>>, requested_path, FALSE)

\* p lies under root: root followed by a separator and at least one segment
Under(root, p) == Len(p) > Len(root) /\ SubSeq(p, 1, Len(root)) = root

\* FileSystemUtils::isSafePath(root, path)
IsSafePath(root, path) == Under(root, Collapse(<<>>, path, TRUE))

NoPath == [state |-> "nullopt", path |-> <<>>]
NotResolved == [state |-> "none", path |-> <<>>]

\* Mutant: step 4, the containment test, is left out
SecurePath_NoContainmentTest(root, requested_path) ==
    LET joined == root \o NormalizePath(requested_path)
    IN  [state |-> "path", path |-> IF Exists(joined) THEN Canonical(joined) ELSE joined]

\* FileSystemUtils::securePath(root, requested_path)
SecurePath(root, requested_path) ==
    LET joined == root \o NormalizePath(requested_path)
        full_path == IF Exists(joined) THEN Canonical(joined) ELSE joined
    IN  IF ~IsSafePath(root, full_path) THEN NoPath
        ELSE [state |-> "path", path |-> full_path]

\* The bytes of the file at the canonical path p
Content(p) ==
    CASE p = <<"w", "i">> -> "bytes of /w/i"
      [] p = <<"w", "d", "i">> -> "bytes of /w/d/i"
      [] p = <<"o", "s">> -> "bytes of /o/s"
      [] OTHER -> "no file"

FileContents == { Content(p) : p \in Files }

\* path += config_.default_file, for a path that is empty or ends with '/'
WithDefaultFile(path) ==
    IF path = <<>> THEN <<DefaultFile>>
    ELSE IF path[Len(path)] = "" THEN SubSeq(path, 1, Len(path) - 1) \o <<DefaultFile>>
    ELSE path

\* ctx.status(code).header("Content-Type", "text/html").body(text)
ErrorPage(code, text) ==
    Body(Header(Status(NewResponse, code), "Content-Type", "text/html"), text)

\* handleStaticFile once the resolver has returned the path p (the model
\* keeps one MIME type)
ServeResolved(p, listing, readOk) ==
    IF ~Exists(p) THEN ErrorPage(404, "<h1>404 Not Found</h1>")
    ELSE IF IsDirectory(p)
         THEN (IF listing THEN ErrorPage(200, "<h1>Directory Listing</h1>")
               ELSE ErrorPage(403, "<h1>403 Forbidden</h1><p>Directory listing disabled</p>"))
    ELSE IF ~IsRegularFile(p) THEN ErrorPage(403, "<h1>403 Forbidden</h1>")
    ELSE IF Canonical(p) \in BigFiles THEN ErrorPage(413, "<h1>413 Payload Too Large</h1>")
    ELSE IF ~readOk THEN ErrorPage(500, "<h1>500 Internal Server Error</h1>")
    ELSE Body(Header(Status(NewResponse, 200), "Content-Type", "application/octet-stream"),
              Content(Canonical(p)))

\* Mutant: a request the resolver refused is answered with the index file
StaticResponse_ServesWhenRefused(resolved, listing, readOk) ==
    IF resolved.state = "nullopt"
    THEN ServeResolved(DocRoot \o <<DefaultFile>>, listing, readOk)
    ELSE ServeResolved(resolved.path, listing, readOk)

\* The response handleStaticFile builds from the resolver's answer
StaticResponse(resolved, listing, readOk) ==
    IF resolved.state = "nullopt"
    THEN ErrorPage(403, "<h1>403 Forbidden</h1><p>Access denied</p>")
    ELSE ServeResolved(resolved.path, listing, readOk)

\* StaticFilesPlugin::handleStaticFile(ctx), for the request path r; listing
\* is config_.enable_directory_listing, readOk whether readFile succeeds
HandleStaticFile(r, listing, readOk) ==
    /\ requested' = r
    /\ safe_path' = SecurePath(DocRoot, WithDefaultFile(r))
    /\ response' = StaticResponse(safe_path', listing, readOk)
    /\ UNCHANGED <<routers, ctx, pipeVars, lifeVars, poolVars, mpVars, streamVars, parseVars,
                   callVars, builderVars>>

-----------------------------------------------------------------------------
(* Server::handleStreamDirect and ScreenCapturer::captureFrame              *)

MaxFrames == 2

\* What happens inside captureFrame: a frame is captured, the frame differs
\* from the previous one by less than 1%, or the capture fails (no device
\* context, no bitmap, GetDIBits returns 0 lines)
CaptureOutcomes == {"frame", "nochange", "failed"}

\* ScreenCapturer::captureFrame(scale_factor, false): std::nullopt for a
\* failed capture and for an unchanged frame alike
CaptureFrame(outcome) == IF outcome = "frame" THEN "frame" ELSE "nullopt"

\* How handleStreamDirect gets to its loop: the request is not authenticated,
\* client.send(headers) throws, or the headers are sent
StreamEntries == {"unauthorized", "sendfails", "ok"}

\* handleStreamDirect(std::move(client), request) up to the stream loop
StreamBegin(entry) ==
    /\ streamPc = "idle"
    /\ IF entry = "ok"
       THEN streamPc' = "test" /\ client' = "open"
       ELSE streamPc' = "returned" /\ client' = "closed"
    /\ UNCHANGED <<serverVars, mpVars, fsVars, parseVars, frames_sent, sentAfterStop, lastCapture, previous_frame_>>

\* Mutant: while (true)
StreamTest_IgnoresRunning ==
    /\ streamPc = "test"
    /\ frames_sent < MaxFrames
    /\ streamPc' = "capture"
    /\ UNCHANGED <<serverVars, mpVars, fsVars, parseVars, frames_sent, sentAfterStop, client, lastCapture, previous_frame_>>

\* while (running_)
StreamTest ==
    /\ streamPc = "test"
    /\ running => frames_sent < MaxFrames
    /\ streamPc' = IF running THEN "capture" ELSE "ended"
    /\ UNCHANGED <<serverVars, mpVars, fsVars, parseVars, frames_sent, sentAfterStop, client, lastCapture, previous_frame_>>

\* auto frame = capturer.captureFrame(scale_factor, false); if (!frame) the
\* cycle sleeps and continues
StreamCapture(outcome) ==
    /\ streamPc = "capture"
    /\ outcome = "nochange" => previous_frame_ = "set"
    /\ lastCapture' = outcome
    /\ IF CaptureFrame(outcome) = "nullopt"
       THEN streamPc' = "sleep" /\ UNCHANGED previous_frame_
       ELSE streamPc' = "compress" /\ previous_frame_' = "set"
    /\ UNCHANGED <<serverVars, mpVars, fsVars, parseVars, frames_sent, sentAfterStop, client>>

\* frameToJPEG: an empty result is logged and breaks the loop
StreamCompress(ok) ==
    /\ streamPc = "compress"
    /\ streamPc' = IF ok THEN "send" ELSE "ended"
    /\ UNCHANGED <<serverVars, mpVars, fsVars, parseVars, frames_sent, sentAfterStop, client, lastCapture, previous_frame_>>

\* client.send of the frame header, the JPEG data and CRLF; a send that
\* throws is caught after the loop, handleStreamDirect returns and client is
\* destroyed
StreamSend(ok) ==
    /\ streamPc = "send"
    /\ IF ok
       THEN /\ frames_sent' = frames_sent + 1
            /\ sentAfterStop' = IF running THEN sentAfterStop ELSE sentAfterStop + 1
            /\ streamPc' = "sleep"
            /\ UNCHANGED client
       ELSE /\ streamPc' = "returned"
            /\ client' = "closed"
            /\ UNCHANGED <<frames_sent, sentAfterStop>>
    /\ UNCHANGED <<serverVars, mpVars, fsVars, parseVars, lastCapture, previous_frame_>>

\* std::this_thread::sleep_for(sleep_time), then the next cycle
StreamSleep ==
    /\ streamPc = "sleep"
    /\ streamPc' = "test"
    /\ UNCHANGED <<serverVars, mpVars, fsVars, parseVars, frames_sent, sentAfterStop, client, lastCapture, previous_frame_>>

\* After the loop: the final statistics are logged, handleStreamDirect
\* returns and client is destroyed
StreamEnd ==
    /\ streamPc = "ended"
    /\ streamPc' = "returned"
    /\ client' = "closed"
    /\ UNCHANGED <<serverVars, mpVars, fsVars, parseVars, frames_sent, sentAfterStop, lastCapture, previous_frame_>>

-----------------------------------------------------------------------------
(* HTTPRequest::parse                                                       *)
(*                                                                          *)
(* A raw request is its size in bytes and the space-separated tokens of its *)
(* first line; a request target is a sequence of characters.                *)

MAX_REQUEST_SIZE == 1048576

\* The size of handleClient's receive buffer
BufferSize == 16384

ValidMethods == {"GET", "POST", "PUT", "DELETE", "PATCH", "OPTIONS", "HEAD"}
ValidVersions == {"HTTP/1.1", "HTTP/1.0"}

\* The method tokens, request targets and versions clients send
MethodTokens == ValidMethods \cup {"get", "TRACE"}
Targets == { <<"/">>, <<"/", "a">>, <<"/", "a", "?", "q">>, <<"a">>, <<"?", "q">>, <<>> }
VersionTokens == ValidVersions \cup {"HTTP/2.0"}

\* The first lines: METHOD SP TARGET SP VERSION, and lines of fewer or more tokens
RequestLines ==
    { <<m, t, v>> : m \in MethodTokens, t \in Targets, v \in VersionTokens }
        \cup { <<"GET", <<"/">>>>, <<"GET", <<"/">>, "HTTP/1.1", "x">> }

RawInputs == [size : {BufferSize, MAX_REQUEST_SIZE, MAX_REQUEST_SIZE + 1}, line : RequestLines]

NoRequest == [state |-> "none", method |-> "UNKNOWN", path |-> <<>>, version |-> "", error_message |-> ""]

\* parse returns false with error_message_ set
ParseError(message) == [state |-> "failed", method |-> "UNKNOWN", path |-> <<>>, version |-> "",
                        error_message |-> message]

\* parseMethod: the canonical tokens, case-sensitive
ParseMethod(method_str) == IF method_str \in ValidMethods THEN method_str ELSE "UNKNOWN"

\* RAW-URI split at the first "?": the path
PathOf(target) ==
    LET marks == { i \in 1..Len(target) : target[i] = "?" }
    IN  IF marks = {} THEN target
        ELSE SubSeq(target, 1, (CHOOSE i \in marks : \A j \in marks : i <= j) - 1)

\* The path must start with "/"
ValidPath(path) == path # <<>> /\ path[1] = "/"

\* Mutant: a method that is not known is accepted
ParseRequestLine_AcceptsUnknownMethod(line) ==
    IF line[3] \notin ValidVersions THEN ParseError("Unsupported HTTP version")
    ELSE [state |-> "ok", method |-> ParseMethod(line[1]), path |-> PathOf(line[2]),
          version |-> line[3], error_message |-> ""]

\* HTTPRequest::parseRequestLine, for a line of three tokens
ParseRequestLine(line) ==
    IF ParseMethod(line[1]) = "UNKNOWN" THEN ParseError("Unsupported HTTP method")
    ELSE IF line[3] \notin ValidVersions THEN ParseError("Unsupported HTTP version")
    ELSE [state |-> "ok", method |-> ParseMethod(line[1]), path |-> PathOf(line[2]),
          version |-> line[3], error_message |-> ""]

\* HTTPRequest::parse(raw_data)
HTTPParse(raw_data) ==
    IF raw_data.size > MAX_REQUEST_SIZE THEN ParseError("Request too large")
    ELSE IF Len(raw_data.line) # 3 THEN ParseError("Malformed request line")
    ELSE IF ~ValidPath(PathOf(raw_data.line[2])) THEN ParseError("Invalid path")
    ELSE ParseRequestLine(raw_data.line)

\* request.parse(raw_request)
RequestParse(raw_data) ==
    /\ request.state = "none"
    /\ rawInput' = raw_data
    /\ request' = HTTPParse(raw_data)
    /\ UNCHANGED <<serverVars, mpVars, fsVars, streamVars>>

\* The HTTPRequest object is destroyed
RequestDone ==
    /\ request.state # "none"
    /\ request' = NoRequest
    /\ UNCHANGED <<rawInput, serverVars, mpVars, fsVars, streamVars>>

-----------------------------------------------------------------------------
(* Specifications *)

\* ServerBuilder(): nothing configured
NewBuilder == [plugins_ |-> <<>>, middlewares_ |-> <<>>, routes_ |-> <<>>]

\* No body has been handed to a parser, no file asked for
InitComp ==
    /\ mpInput = NoBody
    /\ parts_ = <<>>
    /\ parseResult = "none"
    /\ requested = <<>>
    /\ safe_path = NotResolved
    /\ streamPc = "idle"
    /\ frames_sent = 0
    /\ sentAfterStop = 0
    /\ client = "none"
    /\ lastCapture = "none"
    /\ previous_frame_ = "empty"
    /\ rawInput = [size |-> 0, line |-> <<>>]
    /\ request = NoRequest
    /\ stopCalled = FALSE
    /\ builder = NewBuilder
    /\ buildPc = "idle"

\* The state after Server's construction
Init ==
    /\ routers = << [prefix |-> <<>>, parent |-> 0, routes |-> <<>>] >>
    /\ ctx = NoCtx
    /\ response = NewResponse
    /\ middlewares = <<>>
    /\ stack = <<>>
    /\ trace = <<>>
    /\ pc = "idle"
    /\ sent = <<>>
    /\ plugins = <<>>
    /\ running = FALSE
    /\ socket = "none"
    /\ mainPc = "idle"
    /\ mainIdx = 1
    /\ startResult = "none"
    /\ starts = 0
    /\ stopPc = [t \in StopThreads |-> "idle"]
    /\ stopIdx = [t \in StopThreads |-> 1]
    /\ hooks = <<>>
    /\ epoch = 0
    /\ queued = 0
    /\ busy = 0
    /\ active = 0
    /\ accepted = 0
    /\ closed = 0
    /\ total_requests = 0
    /\ received = NoInput
    /\ addResult = [plugin |-> NoPlugin, value |-> "none"]
    /\ InitComp

\* Middleware and routes are registered, then connections are served one by one
Next ==
    \/ \E n \in NextCalls : Use(n)
    \/ \E t \in PipeTemplates : AddRoute(1, "GET", t)
    \/ \E in \in Inputs : HandleClient(in)
    \/ MwNext
    \/ MwReturn
    \/ Send
    \/ TaskExit

Spec == Init /\ [][Next]_vars

\* Registration on and routing through Server::router_ only
NextRouter ==
    \/ \E m \in Methods, t \in Templates : AddRoute(1, m, t)
    \/ \E m \in Methods, p \in Paths : RouteCall(1, m, p)
    \/ DropCtx

SpecRouter == Init /\ [][NextRouter]_vars

\* Templates and paths used with route groups
GroupTemplates == { <<"/", "a">>, <<"/", ":", "x">> }

GroupPaths == { <<"/", "a">>, <<"/", "a", "/", "a">>, <<"/", "v", "/", "a">>,
                <<"/", "a", "/", "v", "/", "a">>, <<"/", "v", "/", "b">> }

\* Registration through groups (also nested), routing through any Router object
NextGroup ==
    \/ \E r \in 1..Len(routers), t \in GroupTemplates : AddRoute(r, "GET", t)
    \/ \E r \in 1..Len(routers), p \in Prefixes : GroupRouter(r, p)
    \/ \E r \in 1..Len(routers), p \in GroupPaths : RouteCall(r, "GET", p)
    \/ DropCtx

SpecGroup == Init /\ [][NextGroup]_vars

\* Plugins are added, one thread calls start(), another calls stop(), the
\* pool workers run the per-connection tasks
NextServer ==
    \/ \E p \in PlainPlugins : AddPlugin(p)
    \/ StartBegin
    \/ StartPlugin
    \/ \E ok \in BOOLEAN : Bind(ok)
    \/ SetRunning
    \/ LoopTest
    \/ AcceptClient
    \/ AcceptFail
    \/ TaskBegin
    \/ TaskEnd
    \/ \E t \in StopThreads : StopTest(t)
    \/ \E t \in StopThreads : StopSet(t)
    \/ \E t \in StopThreads : StopOnServerStop(t)
    \/ \E t \in StopThreads : StopShutdown(t)
    \/ \E t \in StopThreads : StopClose(t)

SpecServer == Init /\ [][NextServer]_vars

\* A server in its accept loop after use(...), router().get("/a", ...) and
\* start(), with no plugin loaded
InitServing ==
    /\ routers = << [prefix |-> <<>>, parent |-> 0,
                     routes |-> << MakeRoute(<<>>, "GET", <<"/", "a">>, 1) >>] >>
    /\ ctx = NoCtx
    /\ response = NewResponse
    /\ middlewares \in { <<>>, << [calls |-> 1] >>, << [calls |-> 1], [calls |-> 0] >> }
    /\ stack = <<>>
    /\ trace = <<>>
    /\ pc = "idle"
    /\ sent = <<>>
    /\ total_requests = 0
    /\ received = NoInput
    /\ plugins = <<>>
    /\ running = TRUE
    /\ socket = "listening"
    /\ mainPc = "loop"
    /\ mainIdx = 1
    /\ startResult = "none"
    /\ starts = 1
    /\ stopPc = [t \in StopThreads |-> "idle"]
    /\ stopIdx = [t \in StopThreads |-> 1]
    /\ hooks = <<>>
    /\ epoch = 0
    /\ addResult = [plugin |-> NoPlugin, value |-> "none"]
    /\ queued = 0
    /\ busy = 0
    /\ active = 0
    /\ accepted = 0
    /\ closed = 0
    /\ InitComp

\* The one pool worker takes the next submitted task
ConnBegin == busy = 0 /\ pc = "idle" /\ TaskBegin

\* The task calls handleClient(std::move(client), client_addr)
ConnHandle(in) == busy = 1 /\ HandleClient(in)

\* handleClient is at its return: the task ends
ConnEnd == pc = "closed" /\ TaskEnd

\* The worker is free for the next task
ConnReset == busy = 0 /\ TaskExit

\* The accept loop submits connections; one worker runs the per-connection
\* tasks, in which receive, a middleware, the route handler or send may throw
NextConn ==
    \/ LoopTest
    \/ AcceptClient
    \/ AcceptFail
    \/ ConnBegin
    \/ \E in \in Inputs \cup FailedInputs : ConnHandle(in)
    \/ MwNext
    \/ MwReturn
    \/ Throw
    \/ Send
    \/ ConnEnd
    \/ ConnReset

SpecConn == InitServing /\ [][NextConn]_vars

\* As NextConn, and the submission of a task to the pool may fail
NextSubmit ==
    \/ NextConn
    \/ SubmitFail

SpecSubmit == InitServing /\ [][NextSubmit]_vars

\* The plugins of the start/stop runs: A has priority 100, B either priority
LifePlugins ==
    { p \in PlainPlugins : p.name \in {"A", "B"} /\ (p.name = "A" => p.priority = 100) }

\* One thread calls start(), another calls stop(); accepted connections stay
\* queued in the pool
NextLife ==
    \/ \E p \in LifePlugins : AddPlugin(p)
    \/ StartBegin
    \/ StartPlugin
    \/ \E ok \in BOOLEAN : Bind(ok)
    \/ SetRunning
    \/ LoopTest
    \/ AcceptClient
    \/ AcceptFail
    \/ \E t \in StopThreads : StopTest(t)
    \/ \E t \in StopThreads : StopSet(t)
    \/ \E t \in StopThreads : StopOnServerStop(t)
    \/ \E t \in StopThreads : StopShutdown(t)
    \/ \E t \in StopThreads : StopClose(t)

SpecLife == Init /\ [][NextLife]_vars

\* Scheduling: the thread in acceptLoop() re-tests running_ after every
\* accept, a thread inside stop() runs it to the end, and accept() on a closed
\* listening socket fails instead of blocking.  Nothing forces a client to
\* connect or a thread to call stop().
FairLife ==
    /\ WF_vars(LoopTest)
    /\ WF_vars(AcceptFail /\ socket = "closed")
    /\ \A t \in StopThreads :
          /\ WF_vars(StopSet(t))
          /\ WF_vars(StopOnServerStop(t))
          /\ WF_vars(StopShutdown(t))
          /\ WF_vars(StopClose(t))

SpecLifeFair == SpecLife /\ FairLife

\* The plugins handed to addPlugin in the registry runs: initialize() may
\* fail; A registers one route and one middleware, B keeps the default
\* registerRoutes/registerMiddleware and the default priority
RegistryPlugins ==
    { p \in PluginInputs :
        /\ p.startOk
        /\ \/ p.name = "A" /\ p.template = <<"/", "a">> /\ p.mw = 1
           \/ p.name = "B" /\ p.template = <<>> /\ p.mw = -1 /\ p.priority = 500 }

\* Plugins are added and removed
NextRegistry ==
    \/ \E p \in RegistryPlugins : AddPlugin(p)
    \/ \E n \in PluginNames : RemovePlugin(n)

SpecRegistry == Init /\ [][NextRegistry]_vars

\* The plugins of the runs with a failing initialize(): A registers one route
\* and one middleware and its initialize() may fail, B is a plain plugin
InitPlugins ==
    { p \in RegistryPlugins : p.priority = 500 /\ (p.name = "B" => p.initOk) }

\* Plugins are added; start() and stop() run over what is loaded
NextInit ==
    \/ \E p \in InitPlugins : AddPlugin(p)
    \/ StartBegin
    \/ StartPlugin
    \/ Bind(TRUE)
    \/ SetRunning
    \/ LoopTest
    \/ AcceptFail
    \/ \E t \in StopThreads : StopTest(t)
    \/ \E t \in StopThreads : StopSet(t)
    \/ \E t \in StopThreads : StopOnServerStop(t)
    \/ \E t \in StopThreads : StopShutdown(t)
    \/ \E t \in StopThreads : StopClose(t)

SpecInit == Init /\ [][NextInit]_vars

\* The static-files plugin answers requests, one after the other
StaticRequest(r, listing, readOk) == safe_path = NotResolved /\ HandleStaticFile(r, listing, readOk)

\* The response has been sent: the Context and its response are gone
StaticSent ==
    /\ safe_path # NotResolved
    /\ requested' = <<>>
    /\ safe_path' = NotResolved
    /\ response' = NewResponse
    /\ UNCHANGED <<routers, ctx, pipeVars, lifeVars, poolVars, mpVars, streamVars, parseVars,
                   callVars, builderVars>>

NextStatic ==
    \/ \E r \in Requests, listing \in BOOLEAN, readOk \in BOOLEAN : StaticRequest(r, listing, readOk)
    \/ StaticSent

SpecStatic == Init /\ [][NextStatic]_vars

\* A running server: one worker streams to its client, a thread calls stop()
NextStream ==
    \/ \E entry \in StreamEntries : StreamBegin(entry)
    \/ StreamTest
    \/ \E outcome \in CaptureOutcomes : StreamCapture(outcome)
    \/ \E ok \in BOOLEAN : StreamCompress(ok)
    \/ \E ok \in BOOLEAN : StreamSend(ok)
    \/ StreamSleep
    \/ StreamEnd
    \/ \E t \in StopThreads : StopTest(t) \/ StopSet(t) \/ StopClose(t)

SpecStream == InitServing /\ [][NextStream]_vars

\* The worker thread that runs handleStreamDirect is scheduled, and its
\* sleep and its blocking sends come to an end
StreamStep ==
    \/ StreamTest
    \/ \E outcome \in CaptureOutcomes : StreamCapture(outcome)
    \/ \E ok \in BOOLEAN : StreamCompress(ok)
    \/ \E ok \in BOOLEAN : StreamSend(ok)
    \/ StreamSleep
    \/ StreamEnd

SpecStreamFair == SpecStream /\ WF_vars(StreamStep)

\* Raw requests are parsed, one after the other
NextRequest ==
    \/ \E raw_data \in RawInputs : RequestParse(raw_data)
    \/ RequestDone

SpecRequest == Init /\ [][NextRequest]_vars

\* A server that is not started; a client's multipart body is parsed
InitMultipart ==
    /\ routers = << [prefix |-> <<>>, parent |-> 0, routes |-> <<>>] >>
    /\ ctx = NoCtx
    /\ response = NewResponse
    /\ middlewares = <<>>
    /\ stack = <<>>
    /\ trace = <<>>
    /\ pc = "idle"
    /\ sent = <<>>
    /\ total_requests = 0
    /\ received = NoInput
    /\ plugins = <<>>
    /\ running = FALSE
    /\ socket = "none"
    /\ mainPc = "idle"
    /\ mainIdx = 1
    /\ startResult = "none"
    /\ starts = 0
    /\ stopPc = [t \in StopThreads |-> "idle"]
    /\ stopIdx = [t \in StopThreads |-> 1]
    /\ hooks = <<>>
    /\ epoch = 0
    /\ addResult = [plugin |-> NoPlugin, value |-> "none"]
    /\ queued = 0
    /\ busy = 0
    /\ active = 0
    /\ accepted = 0
    /\ closed = 0
    /\ mpInput \in [sections : SeqsUpTo(Sections, MaxParts), epilogue : Epilogues]
    /\ parts_ = <<>>
    /\ parseResult = "none"
    /\ requested = <<>>
    /\ safe_path = NotResolved
    /\ streamPc = "idle"
    /\ frames_sent = 0
    /\ sentAfterStop = 0
    /\ client = "none"
    /\ lastCapture = "none"
    /\ previous_frame_ = "empty"
    /\ rawInput = [size |-> 0, line |-> <<>>]
    /\ request = NoRequest
    /\ stopCalled = FALSE
    /\ builder = NewBuilder
    /\ buildPc = "idle"

NextMultipart == ParseCall

SpecMultipart == InitMultipart /\ [][NextMultipart]_vars

-----------------------------------------------------------------------------
(* Helpers of the properties *)

Range(f) == { f[i] : i \in DOMAIN f }

IsPrefix(a, b) == Len(a) <= Len(b) /\ a = SubSeq(b, 1, Len(a))

MinOf(S) == CHOOSE x \in S : \A y \in S : x <= y

MaxOf(S) == CHOOSE x \in S : \A y \in S : y <= x

\* The entries of a route list that have method m and whose pattern matches path p
Matching(routes, m, p) ==
    { k \in 1..Len(routes) : routes[k].method = m /\ RegexMatch(routes[k].pattern, p).ok }

\* The routes of Server::router_ that the request in ctx matches
ServerMatching == Matching(routers[1].routes, ctx.method, ctx.path)

\* The route list ctx was routed through
RoutedList == routers[ctx.router].routes

\* Middleware index (0-based) has been entered for the current request
Ran(index) == \E n \in 1..Len(trace) : trace[n] = <<"pre", index>>

PostRan(index) == \E n \in 1..Len(trace) : trace[n] = <<"post", index>>

RouterRan == \E n \in 1..Len(trace) : trace[n][1] \in {"route", "404"}

AllCallNextOnce == \A i \in 1..Len(middlewares) : middlewares[i].calls = 1

\* m1.pre .. mk.pre, the router's handler or the 404 fallback, mk.post .. m1.post, send
ExpectedTrace ==
    LET k == Len(middlewares)
        hit == ServerMatching # {}
    IN  [i \in 1..k |-> <<"pre", i - 1>>]
        \o << IF hit THEN <<"route", routers[1].routes[MinOf(ServerMatching)].handler>>
                     ELSE <<"404", 0>> >>
        \o [i \in 1..k |-> <<"post", k - i>>]
        \o << <<"send", IF hit THEN 200 ELSE 404>> >>

-----------------------------------------------------------------------------
(* Properties *)

\* C1: when every middleware calls next() exactly once, a request executes
\* m1.pre, ..., mk.pre, then the router (or the 404 fallback), then mk.post,
\* ..., m1.post, each exactly once, and the response is sent after m1.post.
C1_ChainOrder ==
    (ctx # NoCtx /\ pc \in {"chain", "closed"} /\ AllCallNextOnce)
        => /\ IsPrefix(trace, ExpectedTrace)
           /\ pc = "closed" => (trace = ExpectedTrace /\ Len(sent) = 1)

C1_Witness ==
    /\ pc = "closed" /\ ctx # NoCtx /\ AllCallNextOnce
    /\ Len(middlewares) >= 2
    /\ ctx.routed = "true"
    /\ Len(sent) = 1

\* C2: when a middleware mi returns without calling next(), no later
\* middleware runs, the router runs no handler and the 404 fallback is not
\* applied; the code after next() of every earlier middleware still runs and
\* the response as the chain left it is what is sent.
C2_ShortCircuit ==
    \A i \in 0..(Len(middlewares) - 1) :
        (pc \in {"chain", "closed"} /\ Ran(i) /\ middlewares[i + 1].calls = 0)
            => /\ \A j \in (i + 1)..(Len(middlewares) - 1) : ~Ran(j)
               /\ ~RouterRan
               /\ ctx.invoked = <<>>
               /\ response.body = UnauthorizedBody
               /\ pc = "closed" =>
                     /\ \A h \in 0..(i - 1) : PostRan(h)
                     /\ sent = <<response>>
                     /\ trace[Len(trace)][1] = "send"

C2_Witness ==
    /\ pc = "closed"
    /\ Len(middlewares) = 3
    /\ middlewares[1].calls = 1 /\ middlewares[2].calls = 0
    /\ Ran(1) /\ PostRan(0)
    /\ ServerMatching # {}
    /\ Len(sent) = 1

\* C3: Router::route invokes the handler of the earliest-registered route
\* that has the request's method and whose template matches the path; routes
\* of other methods are skipped and no later matching route is invoked.
C3_FirstRegisteredWins ==
    (ctx.routed # "none" /\ Matching(RoutedList, ctx.method, ctx.path) # {})
        => ctx.invoked =
              << RoutedList[MinOf(Matching(RoutedList, ctx.method, ctx.path))].handler >>

C3_Witness ==
    /\ ctx.routed = "true"
    /\ Cardinality(Matching(RoutedList, ctx.method, ctx.path)) >= 2
    /\ RoutedList[1].path # RoutedList[2].path
    /\ ctx.invoked = <<1>>

\* The route whose handler route() invoked, and the captures of its match
InvokedRoute == CHOOSE rt \in Range(RoutedList) : rt.handler = ctx.invoked[1]

InvokedCaps == RegexMatch(InvokedRoute.pattern, ctx.path).caps

\* C4 as stated: the Context maps the i-th parameter name of the matched
\* template to the i-th capture, for every i.
C4_ParamsInOrder_Original ==
    ctx.routed = "true" =>
        \A i \in 1..Len(InvokedRoute.param_names) :
            /\ InvokedRoute.param_names[i] \in DOMAIN ctx.params
            /\ ctx.params[InvokedRoute.param_names[i]] = InvokedCaps[i]

\* C4 (amended): the matched template has as many captures as parameter
\* names, and the Context maps each name to the capture at the name's last
\* position in the template; so with pairwise distinct names the i-th name
\* maps to the i-th capture.
C4_ParamsInOrder ==
    ctx.routed = "true" =>
        LET names == InvokedRoute.param_names IN
        /\ Len(InvokedCaps) = Len(names)
        /\ DOMAIN ctx.params = Range(names)
        /\ \A i \in 1..Len(names) :
              ctx.params[names[i]] =
                  InvokedCaps[MaxOf({ j \in 1..Len(names) : names[j] = names[i] })]

C4_Witness ==
    /\ ctx.routed = "true"
    /\ InvokedRoute.param_names = << <<"x">>, <<"y">> >>
    /\ ctx.path = <<"/", "a", "/", "b">>
    /\ ctx.params[<<"x">>] = <<"a">>
    /\ ctx.params[<<"y">>] = <<"b">>

\* C5: route() returns true iff some registered route has the request's
\* method and a matching template; on true exactly one handler was invoked
\* once, on false no handler was invoked and no parameter was set.
C5_RouteResult ==
    ctx.routed # "none" =>
        /\ (ctx.routed = "true") <=> (Matching(RoutedList, ctx.method, ctx.path) # {})
        /\ ctx.routed = "true" => Len(ctx.invoked) = 1
        /\ ctx.routed = "false" => (ctx.invoked = <<>> /\ ctx.params = <<>>)

C5_Witness ==
    /\ ctx.routed = "false"
    /\ \E k \in 1..Len(RoutedList) :
          /\ RoutedList[k].method # ctx.method
          /\ RegexMatch(RoutedList[k].pattern, ctx.path).ok

\* Every route registered on any Router object
AllRoutes ==
    { [router |-> c, k |-> k] : c \in 1..Len(routers), k \in 1..MaxRoutes } \cap
    { x \in [router : 1..Len(routers), k : 1..MaxRoutes] : x.k <= Len(routers[x.router].routes) }

\* C6: a parameter-free route registered through a (nested) group of R is
\* served by R: routing its method and the path prefix+template through R
\* invokes its handler (no other registered route matching that path).
C6_GroupRouteServed ==
    (ctx.routed # "none" /\ ctx.router = 1) =>
        \A x \in AllRoutes :
            LET rt == routers[x.router].routes[x.k] IN
            ( /\ x.router # 1
              /\ rt.param_names = <<>>
              /\ rt.method = ctx.method
              /\ ctx.path = routers[x.router].prefix \o rt.path
              /\ \A y \in AllRoutes \ {x} :
                    ~RegexMatch(routers[y.router].routes[y.k].pattern, ctx.path).ok )
            => ctx.invoked = <<rt.handler>>

\* s without its last character
Front(s) == SubSeq(s, 1, Len(s) - 1)

\* C7: a route whose template ends in '*' matches every path that begins
\* with the template's part before the '*'.
C7_WildcardMatchesRest ==
    ctx.routed # "none" =>
        \A k \in 1..Len(RoutedList) :
            LET t == routers[ctx.router].prefix \o RoutedList[k].path IN
            ( /\ RoutedList[k].method = ctx.method
              /\ t[Len(t)] = "*"
              /\ IsPrefix(Front(t), ctx.path)
              /\ Len(ctx.path) > Len(Front(t)) )
            => ctx.routed = "true"

Reverse(s) == [i \in 1..Len(s) |-> s[Len(s) + 1 - i]]

\* The hooks called since the last start() began
EpochHooks == SubSeq(hooks, epoch + 1, Len(hooks))

\* The plugins on which hook kind was called since the last start() began, in call order
Called(kind) ==
    LET sel == SelectSeq(EpochHooks, LAMBDA e : e[1] = kind)
    IN  [i \in 1..Len(sel) |-> sel[i][2]]

\* C8: stop() calls onServerStop, and shutdown, on the plugins in the reverse
\* of the order in which start() called their onServerStart.
C8_StopReverseOfStart ==
    /\ IsPrefix(Called("stop"), Reverse(Called("start")))
    /\ IsPrefix(Called("shutdown"), Reverse(Called("start")))

\* C9: when a plugin's onServerStart returns false, start() is aborted and
\* onServerStop and shutdown are called on exactly the plugins whose
\* onServerStart had returned true, in the reverse of their start order.
C9_AbortStopsStarted ==
    (mainPc = "idle" /\ startResult = "plugin_failed") =>
        LET ok == Front(Called("start")) IN
        /\ Called("stop") = Reverse(ok)
        /\ Called("shutdown") = Reverse(ok)

\* C10: once stop() has called a plugin's onServerStop or shutdown, the
\* listening socket is closed and no per-connection task is waiting in the
\* pool or running.
C10_StopHooksAfterDrain ==
    (Called("stop") # <<>> \/ Called("shutdown") # <<>>) =>
        /\ socket = "closed"
        /\ queued = 0
        /\ busy = 0

\* C11: start() leaves the accept loop only on a loop test that saw running
\* false and then returns normally; a connection is submitted to the pool only
\* in an iteration whose loop test saw running true; and once stop() has
\* cleared running while start() is in the accept loop, start() eventually
\* returns (accept on the closed listening socket fails).
C11_AcceptLoopExit ==
    /\ [][ /\ (mainPc \in {"loop", "accept"} /\ mainPc' = "idle")
                 => (~running /\ mainPc = "loop" /\ startResult' = "returned")
           /\ (mainPc # "accept" /\ mainPc' = "accept") => (running /\ mainPc = "loop")
           /\ queued' > queued => (mainPc = "accept" /\ mainPc' = "loop") ]_vars
    /\ (~running /\ mainPc \in {"loop", "accept"})
          ~> (mainPc = "idle" /\ startResult = "returned")

C11_Witness ==
    /\ mainPc = "idle" /\ startResult = "returned"
    /\ socket = "closed"
    /\ accepted >= 1
    /\ \A t \in StopThreads : stopPc[t] = "idle"

Last(s) == s[Len(s)]

\* The loaded plugins of that name
Loaded(name) == { i \in 1..Len(plugins) : plugins[i].name = name }

\* C12: no two loaded plugins have the same name, whatever addPlugin and
\* removePlugin calls were made; an addPlugin call with the name of a loaded
\* plugin returns false, calls no initialize/registerRoutes/registerMiddleware
\* and leaves plugin list, route table and middleware list as they were.
C12_NoDuplicateNames ==
    /\ [](\A i, j \in 1..Len(plugins) : i # j => plugins[i].name # plugins[j].name)
    /\ [][ (addResult' # addResult /\ Loaded(addResult'.plugin.name) # {})
             => /\ addResult'.value = "false"
                /\ UNCHANGED <<plugins, routers, middlewares, hooks>> ]_vars

C12_Witness ==
    /\ addResult.value = "false"
    /\ addResult.plugin.initOk
    /\ addResult.plugin.template # <<>>
    /\ \E i \in Loaded(addResult.plugin.name) : plugins[i] # addResult.plugin
    /\ \E k \in 1..Len(hooks) : hooks[k][1] = "shutdown"

\* C13: an addPlugin call whose initialize returns false returns false and
\* changes neither plugin list, route table nor middleware list (it calls
\* initialize at most); every loaded plugin was initialized successfully, and
\* onServerStart, onServerStop and shutdown are only ever called on loaded
\* plugins.
C13_InitializeFailure ==
    /\ [](\A i \in 1..Len(plugins) : plugins[i].initOk)
    /\ [][ (addResult' # addResult /\ ~addResult'.plugin.initOk)
             => /\ addResult'.value = "false"
                /\ UNCHANGED <<plugins, routers, middlewares>>
                /\ hooks' \in {hooks, Append(hooks, <<"initialize", addResult'.plugin.name>>)} ]_vars
    /\ [][ (hooks' # hooks /\ Last(hooks')[1] \in {"start", "stop", "shutdown"})
             => \E i \in Loaded(Last(hooks')[2]) : plugins[i].initOk ]_vars

C13_Witness ==
    /\ addResult.value = "false"
    /\ ~addResult.plugin.initOk
    /\ addResult.plugin.template # <<>>
    /\ Loaded(addResult.plugin.name) = {}
    /\ plugins # <<>>
    /\ epoch >= 2
    /\ hooks[epoch] = <<"initialize", addResult.plugin.name>>
    /\ Called("start") # <<>> /\ Called("stop") # <<>> /\ Called("shutdown") # <<>>
    /\ mainPc = "idle" /\ startResult = "returned"

\* The position in hooks of the initialize() call of the loaded plugin of that name
AddedAt(name) == MaxOf({ k \in 1..Len(hooks) : hooks[k] = <<"initialize", name>> })

\* C14: the plugin list is ordered by priority ascending, and plugins of
\* equal priority are in the order in which they were added.
C14_SortedStable ==
    /\ IsSortedByPriority(plugins)
    /\ \A i, j \in 1..Len(plugins) :
          (i < j /\ plugins[i].priority = plugins[j].priority)
              => AddedAt(plugins[i].name) < AddedAt(plugins[j].name)

\* The names of the loaded plugins, in plugin-list order
PluginOrder == [i \in 1..Len(plugins) |-> plugins[i].name]

\* C15: within one start(), each onServerStart call is on the plugin that
\* follows the previously called one in the plugin list (ascending priority,
\* hence each at most once), is made only if all earlier ones returned true, and
\* precedes the creation of the listening socket; the socket is created, bound
\* and put to listen only after onServerStart of every loaded plugin has
\* returned true.
C15_StartOrder ==
    /\ [](mainPc # "idle" => IsSortedByPriority(plugins))
    /\ [][ (hooks' # hooks /\ Last(hooks')[1] = "start")
             => LET k == Len(Called("start")) + 1 IN
                /\ mainPc = "plugins"
                /\ k <= Len(plugins)
                /\ Last(hooks')[2] = plugins[k].name
                /\ Called("start") = SubSeq(PluginOrder, 1, k - 1)
                /\ \A i \in 1..(k - 1) : plugins[i].startOk ]_vars
    /\ [][ (socket' # socket /\ socket' \in {"open", "listening"})
             => /\ Called("start") = PluginOrder
                /\ \A i \in 1..Len(plugins) : plugins[i].startOk ]_vars

C15_Witness ==
    /\ mainPc = "setrun" /\ socket = "listening"
    /\ Len(plugins) = 2
    /\ plugins[1].priority < plugins[2].priority
    /\ Called("start") = PluginOrder

\* The ways start() ends with an exception
StartErrors == {"plugin_failed", "bind_failed"}

\* C16: start() ends with an error exactly where a plugin's onServerStart
\* returned false or bind/listen failed; it does so before running is set and
\* before the accept loop, so no connection is accepted by that start(), and
\* running is false when the error reaches the caller and as long as no other
\* start() runs.
C16_StartupErrors ==
    /\ [][ startResult' # startResult =>
             /\ (startResult' \in StartErrors)
                   <=> (mainPc = "plugins" /\ mainPc' = "idle")
             /\ startResult' = "plugin_failed" =>
                   (mainIdx <= Len(plugins) /\ ~plugins[mainIdx].startOk)
             /\ startResult' = "bind_failed" =>
                   (mainIdx > Len(plugins) /\ socket' # "listening")
             /\ startResult' \in StartErrors => (accepted' = accepted /\ ~running') ]_vars
    /\ [][ (mainPc = "plugins" /\ mainPc' # "plugins")
             => (startResult' \in StartErrors <=> socket' # "listening") ]_vars
    /\ [][ accepted' # accepted => (mainPc = "accept" /\ startResult = "none") ]_vars
    /\ []((mainPc = "idle" /\ startResult \in StartErrors) => ~running)

C16_Witness ==
    /\ mainPc = "idle" /\ startResult = "bind_failed"
    /\ Called("start") # <<>>
    /\ socket = "open"
    /\ ~running /\ accepted = 0

\* C17: a per-connection task whose input does not parse writes exactly one
\* response, of status 400, enters no middleware, routes nothing, creates no
\* Context, leaves total_requests as it was, and does nothing further but
\* return, which closes the connection.
C17_ParseFailure ==
    /\ [](received.kind = "invalid" =>
             /\ pc = "closed"
             /\ Len(sent) = 1 /\ sent[1].status = 400
             /\ trace = << <<"send", 400>> >>
             /\ ctx = NoCtx /\ stack = <<>>)
    /\ [][ (received.kind = "none" /\ received'.kind = "invalid")
             => total_requests' = total_requests ]_vars
    /\ [][ received.kind = "invalid"
             => (pc' = "idle" /\ received'.kind = "none" /\ total_requests' = total_requests) ]_vars

C17_Witness ==
    /\ received.kind = "invalid"
    /\ sent = <<BadRequestResponse>>
    /\ middlewares # <<>>
    /\ routers[1].routes # <<>>
    /\ total_requests = 1

\* C18: when every middleware calls next() and no route of the server's
\* router has the request's method and a matching template (a route of
\* another method matching the path does not count), the one response sent
\* has status 404, Content-Type text/html and a non-empty body.
C18_NotFound ==
    ( /\ pc = "closed" /\ received.kind = "request"
      /\ \A i \in 1..Len(middlewares) : middlewares[i].calls >= 1
      /\ ServerMatching = {} )
    => /\ Len(sent) = 1
       /\ sent[1].status = 404
       /\ sent[1].contentType = "text/html"
       /\ sent[1].body # ""

C18_Witness ==
    /\ pc = "closed" /\ received.kind = "request"
    /\ middlewares # <<>>
    /\ \A i \in 1..Len(middlewares) : middlewares[i].calls >= 1
    /\ ctx.method = "POST"
    /\ \E k \in 1..Len(routers[1].routes) :
          RegexMatch(routers[1].routes[k].pattern, ctx.path).ok
    /\ Len(sent) = 1 /\ sent[1].status = 404

\* C19: when an exception raised by a middleware or route handler has been
\* caught by the per-connection task, a response of status 500 has been
\* written to the client.
C19_ExceptionGives500 ==
    ( /\ pc = "closed" /\ received.kind = "request"
      /\ trace # <<>> /\ Last(trace) = <<"catch", 0>> )
    => (Len(sent) = 1 /\ sent[1].status = 500)

\* C20: the accepted client sockets are those closed plus those still owned
\* by a waiting or running task; a socket is closed exactly when its task ends
\* (once per task, on every way handleClient returns), and the task writes to
\* its socket only before that.
C20_SocketsClosedOnce ==
    /\ [](accepted = closed + queued + busy)
    /\ [][ /\ closed' # closed => (closed' = closed + 1 /\ busy' = busy - 1 /\ pc = "closed")
           /\ busy' < busy => closed' = closed + 1
           /\ (sent' # sent /\ sent' # <<>>) => (busy = 1 /\ busy' = 1) ]_vars
    /\ []((pc # "idle" /\ busy = 0) => (pc = "closed" /\ closed >= 1))

C20_Witness ==
    /\ pc = "closed" /\ busy = 0
    /\ received.kind = "request"
    /\ stack = <<>> /\ Len(trace) >= 3 /\ Last(trace) = <<"catch", 0>>
    /\ accepted = 2 /\ closed = 2

\* C21: active_connections is the number of accepted connections whose
\* per-connection task has not exited (those waiting in the pool plus those
\* running); it is never negative and is 0 when no task is left.
C21_ActiveConnections ==
    /\ active = queued + busy
    /\ active >= 0
    /\ (queued = 0 /\ busy = 0) => active = 0

-----------------------------------------------------------------------------
(* MultipartParser::parse *)

\* The part a client put into a section: the fields its header lines state
\* and its data
RECURSIVE SentFields(_, _)
SentFields(lines, part) ==
    IF lines = <<>> THEN part ELSE SentFields(Tail(lines), HeaderLine(part, Head(lines)))

SentPart(sec) == [SentFields(sec.lines, NewPart) EXCEPT !.data = sec.data]

\* C22: a body assembled from the parts P1..Pn with boundary B and ended by
\* --B--, parsed with B, yields exactly P1..Pn: same order, same name, filename
\* and content type, byte-identical data, also for data that is empty or ends
\* in CR or LF bytes.
C22_RoundTrip ==
    ( /\ parseResult # "none"
      /\ mpInput.epilogue = <<>>
      /\ \A i \in 1..Len(mpInput.sections) : mpInput.sections[i].kind = "part" )
    => parts_ = [i \in 1..Len(mpInput.sections) |-> SentPart(mpInput.sections[i])]

\* C23: parse stops at the terminating marker --B--: the parts are those of
\* the body cut after its first --B--, whatever follows the marker and whether
\* or not the section just before it was well-formed.
C23_StopsAtTerminator ==
    parseResult # "none"
    => parts_ = Parse(Terminated(Boundary, mpInput.sections), Boundary).parts

\* C24: if a section between two boundary markers has no header terminator
\* (CRLF CRLF), parse fails and returns false, even when other sections of the
\* body are well-formed.
C24_MalformedPartFails ==
    ( /\ parseResult # "none"
      /\ mpInput.epilogue = <<>>
      /\ \E i \in 1..Len(mpInput.sections) : mpInput.sections[i].kind = "junk" )
    => parseResult = "false"

-----------------------------------------------------------------------------
(* FileSystemUtils::securePath, StaticFilesPlugin::handleStaticFile *)

C26_RefusedGives403 ==
    /\ safe_path.state = "nullopt"
       => response.status = 403 /\ response.body \notin FileContents
    /\ response.body \in FileContents
       => /\ safe_path.state = "path"
          /\ IsRegularFile(safe_path.path)
          /\ response.body = Content(safe_path.path)

\* A request through the link that leaves the root was answered with 403
C26_Witness ==
    /\ requested = <<"l", "s">>
    /\ safe_path.state = "nullopt"
    /\ response.status = 403

-----------------------------------------------------------------------------
(* Context::json, Context::html, Context::text *)

\* C27: json, html and text set the Content-Type header and the body only; a
\* status set before with status(code) is kept, so the response a middleware
\* builds with ctx.status(401).json(...) has status 401.
C27_JsonKeepsStatus ==
    response.body = UnauthorizedBody
    => response.status = 401 /\ response.contentType = "application/json"

-----------------------------------------------------------------------------
(* Server::handleStreamDirect *)

\* C28: once running_ is cleared by stop() while the stream loop pushes
\* frames, the loop writes at most one further frame and then exits: the
\* client socket is closed and the worker's task returns, at whatever point
\* of the loop the flag is cleared.
C28_StopEndsStream ==
    /\ [](sentAfterStop <= 1)
    /\ (~running /\ streamPc \notin {"idle", "returned"})
          ~> (streamPc = "returned" /\ client = "closed")

\* The flag was cleared during a cycle, one more frame was written and the
\* stream has ended
C28_Witness ==
    /\ ~running
    /\ sentAfterStop = 1
    /\ streamPc = "returned"
    /\ client = "closed"

\* C30: a capture failure reported by the frame producer ends the stream; it
\* is told apart from "no change", which only skips the frame.
C30_CaptureFailureEnds ==
    lastCapture = "failed" => streamPc \in {"ended", "returned"}

-----------------------------------------------------------------------------
(* HTTPRequest::parse *)

\* The raw input that was parsed breaks one of the rules
Violating ==
    \/ rawInput.size > MAX_REQUEST_SIZE
    \/ Len(rawInput.line) # 3
    \/ /\ Len(rawInput.line) = 3
       /\ \/ rawInput.line[1] \notin ValidMethods
          \/ rawInput.line[3] \notin ValidVersions
          \/ ~ValidPath(PathOf(rawInput.line[2]))

-----------------------------------------------------------------------------
(* Server::stop: onServerStop, then shutdown *)

\* The onServerStop and shutdown calls made so far, in order
StopHooks == SelectSeq(hooks, LAMBDA e : e[1] \in {"stop", "shutdown"})

\* C31: in stop(), onServerStop has been called on every loaded plugin before
\* shutdown is called on any plugin, and each plugin's onServerStop precedes
\* its shutdown: while stop() is in its shutdown loop, its calls so far are
\* onServerStop on all plugins followed by shutdown on the first ones.
C31_StopBeforeShutdown ==
    \A t \in DOMAIN stopPc :
        (stopPc[t] = "shutdown") =>
            LET n == Len(plugins)
                k == stopIdx[t] - 1
                first == Len(StopHooks) - n - k
            IN  /\ first >= 0
                /\ \A i \in 1..n : StopHooks[first + i] = <<"stop", plugins[i].name>>
                /\ \A i \in 1..k : StopHooks[first + n + i] = <<"shutdown", plugins[i].name>>

\* stop() is about to shut down the second of two plugins
C31_Witness ==
    /\ Len(plugins) = 2
    /\ stopPc["t1"] = "shutdown"
    /\ stopIdx["t1"] = 2

-----------------------------------------------------------------------------
(* Plugins of different priorities that register routes and middleware *)

\* A and B register one route and one middleware each, C a middleware only;
\* every priority is tried for each
OrderPlugins ==
    { p \in PluginInputs :
        /\ p.initOk /\ p.startOk
        /\ \/ p.name = "A" /\ p.template = <<"/", "a">> /\ p.mw = 1
           \/ p.name = "B" /\ p.template = <<"/", ":", "x">> /\ p.mw = 2
           \/ p.name = "C" /\ p.template = <<>> /\ p.mw = 0 }

\* Plugins are added; requests go through the middleware chain and the router
NextOrder ==
    \/ \E p \in OrderPlugins : AddPlugin(p)
    \/ \E in \in Inputs : HandleClient(in)
    \/ MwNext
    \/ MwReturn
    \/ Send
    \/ TaskExit

SpecOrder == Init /\ [][NextOrder]_vars

\* The plugin of OrderPlugins that registers that template / that middleware
TemplateOwner(template) == (CHOOSE p \in OrderPlugins : p.template = template).name

MiddlewareOwner(calls) == (CHOOSE p \in OrderPlugins : p.mw = calls).name

\* The names of the plugins whose initialize() was called, in call order
InitializeOrder ==
    LET sel == SelectSeq(hooks, LAMBDA e : e[1] = "initialize")
    IN  [i \in 1..Len(sel) |-> sel[i][2]]

-----------------------------------------------------------------------------
(* Template matching, segment by segment *)

\* Templates with a ':' at the start of a segment and inside a segment
MatchTemplates == Templates \cup { <<"/", "a", ":", "x">> }

MatchPaths == Paths \cup { <<"/", "a", ":", "x">> }

\* Routes are registered on Server::router_ and paths routed through it
NextMatch ==
    \/ \E m \in Methods, t \in MatchTemplates : AddRoute(1, m, t)
    \/ \E m \in Methods, p \in MatchPaths : RouteCall(1, m, p)
    \/ DropCtx

SpecMatch == Init /\ [][NextMatch]_vars

\* The '/'-separated segments of s
RECURSIVE SplitSegments(_)
SplitSegments(s) ==
    LET end == FindSlash(s, 1) IN
    IF end > Len(s) THEN <<s>>
    ELSE <<SubSeq(s, 1, end - 1)>> \o SplitSegments(SubSeq(s, end + 1, Len(s)))

\* Segment-wise matching: as many segments, a segment of the template that
\* begins with ':' against any non-empty segment, any other segment against
\* an equal one
SegmentsMatch(template, path) ==
    LET ts == SplitSegments(template)
        ps == SplitSegments(path)
    IN  /\ Len(ts) = Len(ps)
        /\ \A i \in 1..Len(ts) :
              IF ts[i] # <<>> /\ ts[i][1] = ":" THEN ps[i] # <<>> ELSE ts[i] = ps[i]

\* C33: a compiled template matches a path iff both have the same number of
\* '/'-separated segments, every segment of the template that begins with ':'
\* faces a non-empty segment of the path and every other segment equals the
\* path's segment character for character (a ':' inside a segment is literal).
C33_SegmentwiseMatch ==
    ctx.routed # "none" =>
        ( ctx.routed = "true"
            <=> \E k \in 1..Len(RoutedList) :
                   /\ RoutedList[k].method = ctx.method
                   /\ SegmentsMatch(RoutedList[k].path, ctx.path) )

-----------------------------------------------------------------------------
(* Two threads call stop() *)

\* The signal handler and the thread that destroys the Server
StopCallers == {"t1", "t2"}

\* The state after Server's construction, with two threads that may call stop()
InitCallers ==
    /\ routers = << [prefix |-> <<>>, parent |-> 0, routes |-> <<>>] >>
    /\ ctx = NoCtx
    /\ response = NewResponse
    /\ middlewares = <<>>
    /\ stack = <<>>
    /\ trace = <<>>
    /\ pc = "idle"
    /\ sent = <<>>
    /\ plugins = <<>>
    /\ running = FALSE
    /\ socket = "none"
    /\ mainPc = "idle"
    /\ mainIdx = 1
    /\ startResult = "none"
    /\ starts = 0
    /\ stopPc = [t \in StopCallers |-> "idle"]
    /\ stopIdx = [t \in StopCallers |-> 1]
    /\ hooks = <<>>
    /\ epoch = 0
    /\ queued = 0
    /\ busy = 0
    /\ active = 0
    /\ accepted = 0
    /\ closed = 0
    /\ total_requests = 0
    /\ received = NoInput
    /\ addResult = [plugin |-> NoPlugin, value |-> "none"]
    /\ InitComp

\* Plugins are added before start(); one thread runs start(), two call stop()
NextCallers ==
    \/ \E p \in LifePlugins : AddPlugin(p) /\ \A t \in StopCallers : stopPc[t] = "idle"
    \/ StartBegin
    \/ StartPlugin
    \/ Bind(TRUE)
    \/ SetRunning
    \/ LoopTest
    \/ AcceptFail
    \/ \E t \in StopCallers : StopTest(t)
    \/ \E t \in StopCallers : StopSet(t)
    \/ \E t \in StopCallers : StopOnServerStop(t)
    \/ \E t \in StopCallers : StopShutdown(t)
    \/ \E t \in StopCallers : StopClose(t)

SpecCallers == InitCallers /\ [][NextCallers]_vars

\* How often hook kind was called on the plugin of that name
HookCount(kind, name) == Cardinality({ k \in 1..Len(hooks) : hooks[k] = <<kind, name>> })

\* C34: whatever the interleaving of two concurrent stop() calls on a running
\* server, onServerStop and shutdown are executed once in total on each
\* plugin (never a second time), and a stop() on a server that is not running
\* has no effect.
C34_ConcurrentStopOnce ==
    /\ [](\A i \in 1..Len(plugins) :
             /\ HookCount("stop", plugins[i].name) <= 1
             /\ HookCount("shutdown", plugins[i].name) <= 1)
    /\ [][ \A t \in StopCallers :
             (stopPc[t] = "idle" /\ ~running) => stopPc'[t] = "idle" ]_vars

-----------------------------------------------------------------------------
(* stop() called while start() is executing *)

\* stop() in thread t, "if (!running_) return", with the call noted when
\* start() has been entered and has not returned
StopCall(t) ==
    /\ stopPc[t] = "idle"
    /\ stopCalled' = (stopCalled \/ mainPc # "idle")
    /\ IF running THEN stopPc' = [stopPc EXCEPT ![t] = "set"] ELSE UNCHANGED stopPc
    /\ UNCHANGED <<routers, reqVars, pipeVars, addResult, plugins, running, socket, mainPc, mainIdx,
                   startResult, starts, stopIdx, hooks, epoch, poolVars,
                   mpVars, fsVars, streamVars, parseVars, builderVars>>

\* One thread calls start(), another calls stop() at any moment
NextStopCall ==
    \/ \E p \in LifePlugins : AddPlugin(p)
    \/ StartBegin
    \/ StartPlugin
    \/ \E ok \in BOOLEAN : Bind(ok)
    \/ SetRunning
    \/ LoopTest
    \/ AcceptClient
    \/ AcceptFail
    \/ \E t \in StopThreads : StopCall(t)
    \/ \E t \in StopThreads : StopSet(t)
    \/ \E t \in StopThreads : StopOnServerStop(t)
    \/ \E t \in StopThreads : StopShutdown(t)
    \/ \E t \in StopThreads : StopClose(t)

SpecStopCall == Init /\ [][NextStopCall]_vars

\* C35: a stop() request is never lost: once stop() has been called after
\* start() was entered (also while the plugins are being started or the
\* socket is being bound), start() does not go on serving: it is never in its
\* accept loop with running set and no stop() in progress, the state in which
\* it serves until some further stop() is called.
C35_StopNeverLost ==
    ~ ( /\ stopCalled
        /\ mainPc \in {"loop", "accept"}
        /\ running
        /\ \A t \in StopThreads : stopPc[t] = "idle" )

-----------------------------------------------------------------------------
(* A server that is started again after stop() *)

\* start() calls per Server object in the runs with restarts
MaxCycles == 2

\* start() on a server that may have been started and stopped before:
\* "if (running_) return"; otherwise the plugin loop begins
StartAgain ==
    /\ mainPc = "idle"
    /\ starts < MaxCycles
    /\ IF running
       THEN UNCHANGED <<mainPc, mainIdx, starts, epoch, startResult>>
       ELSE /\ mainPc' = "plugins"
            /\ mainIdx' = 1
            /\ starts' = starts + 1
            /\ epoch' = Len(hooks)
            /\ startResult' = "none"
    /\ UNCHANGED <<routers, reqVars, pipeVars, addResult, plugins, running, socket, stopPc, stopIdx,
                   hooks, poolVars, compVars>>

\* addPlugin, removePlugin, start() and stop() (also from ~Server) in any order
NextCycles ==
    \/ \E p \in LifePlugins : AddPlugin(p)
    \/ \E n \in {"A", "B"} : RemovePlugin(n)
    \/ StartAgain
    \/ StartPlugin
    \/ Bind(TRUE)
    \/ SetRunning
    \/ LoopTest
    \/ AcceptFail
    \/ \E t \in StopThreads : StopTest(t)
    \/ \E t \in StopThreads : StopSet(t)
    \/ \E t \in StopThreads : StopOnServerStop(t)
    \/ \E t \in StopThreads : StopShutdown(t)
    \/ \E t \in StopThreads : StopClose(t)

SpecCycles == Init /\ [][NextCycles]_vars

\* The hooks called on the loaded plugin of that name since its initialize()
InstanceHooks(name) ==
    SelectSeq(SubSeq(hooks, AddedAt(name) + 1, Len(hooks)), LAMBDA e : e[2] = name)

\* C36: whatever the sequence of addPlugin, removePlugin, start, stop and
\* destruction, shutdown is called at most once on each plugin instance and
\* onServerStart is never called on an instance after its shutdown.
C36_ShutdownOnceAndLast ==
    \A i \in 1..Len(plugins) :
        LET h == InstanceHooks(plugins[i].name) IN
        \A j, k \in 1..Len(h) :
            (j < k /\ h[j][1] = "shutdown") => h[k][1] \notin {"shutdown", "start"}

-----------------------------------------------------------------------------
(* addPlugin with a plugin whose registration raises *)

\* Server::addPlugin for a plugin whose registerRoutes (at = "routes": the
\* exception leaves addRoute before the route is pushed) or registerMiddleware
\* (at = "middleware": after registerRoutes has returned) raises: the catch
\* block logs and returns false
AddPluginRaising(p, at) ==
    /\ mainPc = "idle" /\ \A t \in StopThreads : stopPc[t] = "idle"
    /\ pc = "idle" /\ ctx = NoCtx
    /\ Len(plugins) < MaxPlugins
    /\ Len(hooks) < MaxHooks
    /\ p.template # <<>> => TotalRoutes < MaxRoutes
    /\ addResult' = [plugin |-> p, value |-> "false"]
    /\ IF \E i \in 1..Len(plugins) : plugins[i].name = p.name
       THEN UNCHANGED <<routers, hooks>>
       ELSE IF ~p.initOk
       THEN /\ hooks' = Append(hooks, <<"initialize", p.name>>)
            /\ UNCHANGED routers
       ELSE /\ hooks' = Append(hooks, <<"initialize", p.name>>)
            /\ routers' = IF p.template = <<>> \/ at = "routes" THEN routers
                          ELSE [routers EXCEPT ![1].routes =
                                  Append(@, MakeRoute(routers[1].prefix, "GET", p.template,
                                                      TotalRoutes + 1))]
    /\ UNCHANGED <<middlewares, plugins>>
    /\ UNCHANGED <<reqVars, stack, trace, pc, sent, total_requests, received, running, socket, mainPc,
                   mainIdx, startResult, starts, stopPc, stopIdx, epoch, poolVars, compVars>>

\* addPlugin calls, with plugins that load and plugins that raise
NextRaise ==
    \/ \E p \in RegistryPlugins : AddPlugin(p)
    \/ \E p \in RegistryPlugins, at \in {"routes", "middleware"} : AddPluginRaising(p, at)

SpecRaise == Init /\ [][NextRaise]_vars

\* C37: whenever addPlugin returns false, also when registerRoutes or
\* registerMiddleware raises after initialize succeeded, the route table, the
\* middleware list and the plugin list are what they were before the call.
C37_FailedAddChangesNothing ==
    [][ addResult'.value = "false" => UNCHANGED <<routers, middlewares, plugins>> ]_vars

-----------------------------------------------------------------------------
(* Requests after removePlugin *)

\* Plugins are added and removed; requests go through the middleware chain
\* and the router
NextRemove ==
    \/ \E p \in OrderPlugins : AddPlugin(p)
    \/ \E n \in PluginNames : RemovePlugin(n)
    \/ \E in \in Inputs : HandleClient(in)
    \/ MwNext
    \/ MwReturn
    \/ Send
    \/ TaskExit

SpecRemove == Init /\ [][NextRemove]_vars

\* The plugins that were loaded and have been removed since
Removed == { n \in Range(InitializeOrder) : Loaded(n) = {} }

\* C38: after removePlugin(name) returned true the plugin is no longer in the
\* plugin list, the last hook it received is the shutdown of its removal, and
\* no later request invokes a route handler or a middleware it registered.
C38_RemovedPluginIsGone ==
    \A n \in Removed :
        /\ Last(SelectSeq(hooks, LAMBDA e : e[2] = n)) = <<"shutdown", n>>
        /\ \A h \in Range(ctx.invoked) :
              \A k \in 1..Len(routers[1].routes) :
                  routers[1].routes[k].handler = h
                      => TemplateOwner(routers[1].routes[k].path) # n
        /\ \A j \in 0..(Len(middlewares) - 1) :
              Ran(j) => MiddlewareOwner(middlewares[j + 1].calls) # n

-----------------------------------------------------------------------------
(* ServerBuilder (src/include/core/server.hpp) *)

\* The method strings handed to ServerBuilder::route
BuilderMethods == {"GET", "POST", "PUT", "DELETE", "PATCH", "OPTIONS", "HEAD"}

\* The plugins handed to ServerBuilder::plugin<>()
BuilderPlugins == { p \in LifePlugins : p.startOk }

\* ServerBuilder::plugin<PluginT>(args...): plugins_.push_back
BuilderPlugin(p) ==
    /\ buildPc = "idle"
    /\ Len(builder.plugins_) < MaxPlugins
    /\ builder' = [builder EXCEPT !.plugins_ = Append(@, p)]
    /\ UNCHANGED <<routers, reqVars, pipeVars, lifeVars, poolVars, mpVars, fsVars, streamVars,
                   parseVars, callVars, buildPc>>

\* ServerBuilder::middleware(m): middlewares_.push_back
BuilderMiddleware(calls) ==
    /\ buildPc = "idle"
    /\ Len(builder.middlewares_) < MaxMiddlewares
    /\ builder' = [builder EXCEPT !.middlewares_ = Append(@, [calls |-> calls])]
    /\ UNCHANGED <<routers, reqVars, pipeVars, lifeVars, poolVars, mpVars, fsVars, streamVars,
                   parseVars, callVars, buildPc>>

\* ServerBuilder::route(method, path, handler): routes_.push_back
BuilderRoute(method, path) ==
    /\ buildPc = "idle"
    /\ Len(builder.routes_) < MaxRoutes
    /\ builder' = [builder EXCEPT !.routes_ = Append(@, [method |-> method, path |-> path])]
    /\ UNCHANGED <<routers, reqVars, pipeVars, lifeVars, poolVars, mpVars, fsVars, streamVars,
                   parseVars, callVars, buildPc>>

\* build(), first loop: plugin_fn(*server) calls server.addPlugin for every
\* entry of plugins_ from position i on and drops its result; acc holds the
\* plugins loaded so far, the hooks called and what the plugins registered
RECURSIVE ApplyPlugins(_, _, _)
ApplyPlugins(list, i, acc) ==
    IF i > Len(list) THEN acc
    ELSE LET p == list[i] IN
        IF \E k \in 1..Len(acc.plugins) : acc.plugins[k].name = p.name
        THEN ApplyPlugins(list, i + 1, acc)
        ELSE IF ~p.initOk
        THEN ApplyPlugins(list, i + 1,
                [acc EXCEPT !.hooks = Append(@, <<"initialize", p.name>>)])
        ELSE ApplyPlugins(list, i + 1,
                [plugins |-> Append(acc.plugins, p),
                 hooks |-> Append(acc.hooks, <<"initialize", p.name>>),
                 routes |-> IF p.template = <<>> THEN acc.routes
                            ELSE Append(acc.routes, [method |-> "GET", path |-> p.template]),
                 middlewares |-> IF p.mw = -1 THEN acc.middlewares
                                 ELSE Append(acc.middlewares, [calls |-> p.mw])])

\* build(), third loop: "GET" goes to router().get, "POST" to router().post,
\* an entry with any other method string is passed over
ApplyRoutes(list) == SelectSeq(list, LAMBDA r : r.method \in {"GET", "POST"})

\* ServerBuilder::build(): a new Server, then the plugins, the middleware and
\* the routes are applied to it, in that order
Build ==
    /\ buildPc = "idle"
    /\ LET loaded == ApplyPlugins(builder.plugins_, 1,
                        [plugins |-> <<>>, hooks |-> <<>>, routes |-> <<>>, middlewares |-> <<>>])
           registered == loaded.routes \o ApplyRoutes(builder.routes_)
       IN  /\ plugins' \in SortOutcomes(loaded.plugins)
           /\ hooks' = loaded.hooks
           /\ middlewares' = loaded.middlewares \o builder.middlewares_
           /\ routers' = << [prefix |-> <<>>, parent |-> 0,
                             routes |-> [k \in 1..Len(registered) |->
                                           MakeRoute(<<>>, registered[k].method,
                                                     registered[k].path, k)]] >>
    /\ buildPc' = "done"
    /\ UNCHANGED <<reqVars, stack, trace, pc, sent, total_requests, received, running, socket,
                   mainPc, mainIdx, startResult, starts, stopPc, stopIdx, epoch, addResult,
                   poolVars, mpVars, fsVars, streamVars, parseVars, callVars, builder>>

\* A builder is configured, then build() is called
NextBuilder ==
    \/ \E p \in BuilderPlugins : BuilderPlugin(p)
    \/ \E n \in {0, 1} : BuilderMiddleware(n)
    \/ \E m \in BuilderMethods : BuilderRoute(m, <<"/", "a">>)
    \/ Build

SpecBuilder == Init /\ [][NextBuilder]_vars

\* C39: build() returns a server in which every route added with
\* route(method, path, handler) is registered under that method, for each of
\* GET, POST, PUT, DELETE, PATCH, OPTIONS and HEAD, every middleware() is
\* registered in order and every plugin<>() was passed to addPlugin.
C39_BuildAppliesEverything ==
    buildPc = "done" =>
        /\ [k \in 1..Len(routers[1].routes) |->
               [method |-> routers[1].routes[k].method, path |-> routers[1].routes[k].path]]
              = builder.routes_
        /\ middlewares = builder.middlewares_
        /\ \A i \in 1..Len(builder.plugins_) :
              \E k \in 1..Len(hooks) : hooks[k] = <<"initialize", builder.plugins_[i].name>>

-----------------------------------------------------------------------------
(* A MultipartParser that is used for several bodies *)

\* Mutant: parse keeps the parts of the earlier calls
Cleared_KeepsParts(parts) == parts

\* parts_.clear()
Cleared(parts) == <<>>

\* MultipartParser::parse(body, boundary) on a parser that holds parts:
\* parts_ and the value returned
ParseOnto(parts, body, boundary) ==
    LET cleared == Cleared(parts) IN
    IF boundary = <<>> THEN [parts |-> cleared, ok |-> FALSE]
    ELSE LET boundary_start == <<"-", "-">> \o boundary
             start == Find(body, boundary_start, 0)
         IN  IF start = -1 THEN [parts |-> cleared, ok |-> FALSE]
             ELSE LET stored == ParseLoop(body, boundary_start,
                                          start + Len(boundary_start), cleared)
                  IN  [parts |-> stored, ok |-> stored # <<>>]

\* MultipartParser::getFileParts: the loop over parts_ from position i on
RECURSIVE FilePartsFrom(_, _, _)
FilePartsFrom(parts, i, files) ==
    IF i > Len(parts) THEN files
    ELSE FilePartsFrom(parts, i + 1,
                       IF parts[i].filename # "" THEN Append(files, parts[i]) ELSE files)

GetFileParts(parts) == FilePartsFrom(parts, 1, <<>>)

\* MultipartParser::getParts
GetParts(parts) == parts

\* The sections of the bodies one parser is given in turn: a section without
\* header terminator, a form field, a file
ReparseSections ==
    { [kind |-> "junk", lines |-> <<>>, data |-> <<"j">>],
      [kind |-> "part", lines |-> <<"disp_a">>, data |-> <<"d">>],
      [kind |-> "part", lines |-> <<"disp_b_file", "type_octet">>, data |-> <<"d">>] }

\* The bodies, each parsed with no boundary, with a boundary that does not
\* occur in the body, or with the client's boundary
ReparseBodies ==
    [sections : SeqsUpTo(ReparseSections, MaxParts), epilogue : {<<>>},
     boundary : {<<>>, <<"X">>, Boundary}]

\* parser.parse(body, boundary) on the one parser object; held is the number
\* of parts it holds when parse is called
ParserCall(in) ==
    /\ mpInput' = [sections |-> in.sections, epilogue |-> in.epilogue,
                   boundary |-> in.boundary, held |-> Len(parts_)]
    /\ LET r == ParseOnto(parts_, Assemble(Boundary, in), in.boundary)
       IN  /\ parts_' = r.parts
           /\ parseResult' = IF r.ok THEN "true" ELSE "false"
    /\ UNCHANGED <<serverVars, fsVars, streamVars, parseVars>>

\* Bodies are parsed one after the other with the same parser
NextReparse == \E in \in ReparseBodies : ParserCall(in)

SpecReparse == Init /\ [][NextReparse]_vars

\* C40: parse returns true iff the parser holds at least one part afterwards;
\* every call first discards the parts of earlier calls (what the parser holds
\* is what this body alone yields), so after a call that returned false
\* getParts() and getFileParts() are empty; getFileParts() is exactly the
\* subsequence of getParts() with a non-empty filename.
C40_ParseResultAndParts ==
    parseResult # "none" =>
        /\ (parseResult = "true") <=> (Len(GetParts(parts_)) >= 1)
        /\ GetParts(parts_) = Parse(Assemble(Boundary, mpInput), mpInput.boundary).parts
        /\ parseResult = "false"
              => (GetParts(parts_) = <<>> /\ GetFileParts(parts_) = <<>>)
        /\ GetFileParts(parts_) = SelectSeq(GetParts(parts_), LAMBDA p : p.filename # "")

\* A parser that held a file part was given a body in which its boundary does
\* not occur
C40_Witness ==
    /\ parseResult = "false"
    /\ mpInput.held >= 1
    /\ mpInput.boundary = <<"X">>
    /\ mpInput.sections # <<>>
    /\ parts_ = <<>>

====
